---- MODULE Spec2Model ----
(***************************************************************************)
(* Model of the Shabbat schedule generator of horaires-shabbat:            *)
(*   - ShabbatScheduleGenerator (src/horaires_shabbat.py): construction,   *)
(*     determine_season, generate, calculate_times, format_time,           *)
(*     get_mevarchim_friday, identify_shabbat_mevarchim;                   *)
(*   - the united3.py revision of calculate_times;                         *)
(*   - the module-level lunar functions get_next_month_molad and           *)
(*     get_rosh_chodesh_days_for_next_month over the Hebrew calendar.      *)
(* Clock times are minutes since midnight, dates are proleptic Gregorian   *)
(* ordinals (Python's date.toordinal()).  An optional value is a sequence  *)
(* of length 0 (None) or 1.                                                *)
(***************************************************************************)
EXTENDS Integers, Sequences, FiniteSets, TLC

VARIABLES
    now,            \* the wall clock read by datetime.now()
    season,         \* self.season of each generator object
    constructedAt,  \* the instant at which each generator was constructed
    schedule,       \* what generate() of each generator delivered
    self_season,    \* self.season of the generator whose calculate_times is exercised
    anchors,        \* the arguments of the last calculate_times call
    times,          \* the dictionary the last calculate_times call returned
    calendar_strict,\* whether the installed calendar package refuses an invalid month
    ref_date,       \* the date handed to the lunar functions
    rc_days,        \* what get_rosh_chodesh_days_for_next_month did
    molad,          \* what get_next_month_molad did
    shabbat_days,   \* the "day" column of the yearly table
    rosh_dates,     \* the Rosh Chodesh dates fetched for the table
    mevarchim,      \* the Shabbat Mevarchim column identify_shabbat_mevarchim computed
    midweek,        \* the weekday columns compute_times wrote for a row of the table
    round_arg,      \* the minute count handed to the rounding functions
    round_result,   \* what the rounding functions returned, once and applied again
    levana_date,    \* the date for which the Birkat Halevana message is composed
    molad_obj,      \* the molad the calendar package reports: hours, minutes, chalakim
    levana,         \* the window and the message of the Birkat Halevana block
    index,          \* the loop counter of the tekufot generator
    cal_events,     \* the events the tekufot generator added to the calendar
    ics_file,       \* the file tekufa_2025_2035.ics: its events, None while it does not exist
    tekufa_list,    \* self.tekufa_list: the (dt, summary) pairs read from the ICS file
    tekufa,         \* what get_tekufa_for_shabbat returned for a week
    tekufa_col,     \* the tekoufa column: what the lookup returned for each row of the table
    row_day,        \* the "day" of the row whose weekday sunsets are sampled
    sample_dates,   \* the two dates each revision samples the sunset of
    fast_lines,     \* the lines of the file jeunes.ics
    fast_calls,     \* what get_fast_from_ics_for_week returned for each row it was called for
    search_date,    \* the date handed to find_previous_rosh_chodesh and find_next_rosh_chodesh
    prev_found,     \* what find_previous_rosh_chodesh did
    next_search,    \* the loop of find_next_rosh_chodesh: current date, steps taken, outcome
    ics_lines,      \* the lines of a file handed to the two ICS parsers
    parsed_tekufot, \* what parse_tekufa_ics returned
    parsed_fasts,   \* what parse_fast_ics returned
    hebrew_num,     \* the number handed to int_to_hebrew
    hebrew_text,    \* the letters int_to_hebrew returned
    calendar_fault, \* the calendar query that raises during the run, if any
    gen_row,        \* the row of the table generate() selected
    gen_step,       \* how far generate() has come
    image,          \* what create_image delivered
    excel_row       \* the row update_excel wrote

runVars == <<now, season, constructedAt, schedule>>

timesVars == <<self_season, anchors, times, midweek>>

lunarVars == <<calendar_strict, ref_date, rc_days, molad>>

mevarchimVars == <<shabbat_days, rosh_dates, mevarchim>>

roundVars == <<round_arg, round_result>>

levanaVars == <<levana_date, molad_obj, levana>>

tekufaVars == <<index, cal_events, ics_file, tekufa_list, tekufa>>

columnVars == <<tekufa_col>>

datesVars == <<row_day, sample_dates>>

fastVars == <<fast_lines, fast_calls>>

searchVars == <<search_date, prev_found, next_search>>

parseVars == <<ics_lines, parsed_tekufot, parsed_fasts>>

hebrewVars == <<hebrew_num, hebrew_text>>

deliverVars == <<calendar_fault, gen_row, gen_step, image, excel_row>>

lastVars == <<columnVars, datesVars, fastVars, searchVars, parseVars, hebrewVars, deliverVars>>

vars == <<runVars, timesVars, lunarVars, mevarchimVars, roundVars, levanaVars, tekufaVars, lastVars>>

-----------------------------------------------------------------------------
(* Optional values: Python's None and a present value.                     *)

None == <<>>

Some(v) == <<v>>

IsNone(o) == o = <<>>

Val(o) == o[1]

Min2(a, b) == IF a <= b THEN a ELSE b

Max2(a, b) == IF a >= b THEN a ELSE b

-----------------------------------------------------------------------------
(* Dates and instants of the datetime module.                              *)

is_gregorian_leap(y) == (y % 4 = 0) /\ ((y % 100 # 0) \/ (y % 400 = 0))

DaysInMonth(y, m) ==
    IF m = 2 THEN (IF is_gregorian_leap(y) THEN 29 ELSE 28)
    ELSE IF m \in {4, 6, 9, 11} THEN 30 ELSE 31

RECURSIVE DaysBeforeMonth(_, _)
DaysBeforeMonth(y, m) ==
    IF m = 1 THEN 0 ELSE DaysBeforeMonth(y, m - 1) + DaysInMonth(y, m - 1)

\* date.toordinal(): 1 for 0001-01-01
toordinal(y, m, d) ==
    (y - 1) * 365 + ((y - 1) \div 4) - ((y - 1) \div 100) + ((y - 1) \div 400)
    + DaysBeforeMonth(y, m) + d

\* date.weekday(): Monday is 0, Friday 4, Saturday 5, Sunday 6
weekday(ordinal) == (ordinal + 6) % 7

DateTime(y, mo, d, h, mi) == [year |-> y, month |-> mo, day |-> d, hour |-> h, minute |-> mi]

\* datetime.date() as an ordinal
date_of(dt) == toordinal(dt.year, dt.month, dt.day)

\* the order of datetime values: minutes since 0001-01-01 00:00
instant_of(dt) == date_of(dt) * (24 * 60) + dt.hour * 60 + dt.minute

-----------------------------------------------------------------------------
(* The Hebrew calendar as JewishCalendar of the zmanim package computes   *)
(* it: months are numbered from Nisan = 1, the year number advances at     *)
(* Tishri = 7, a leap year has the month 13 (second Adar).                 *)

is_jewish_leap_year(y) == ((7 * y + 1) % 19) < 7

months_in_jewish_year(y) == IF is_jewish_leap_year(y) THEN 13 ELSE 12

\* days from the calendar's epoch to the molad-based new year, before corrections
elapsed_days(y) ==
    LET months_elapsed == (235 * y - 234) \div 19
        parts          == 12084 + 13753 * months_elapsed
        day            == months_elapsed * 29 + (parts \div 25920)
    IN  IF ((3 * (day + 1)) % 7) < 3 THEN day + 1 ELSE day

\* the postponement that keeps every year length legal
year_length_correction(y) ==
    IF elapsed_days(y + 1) - elapsed_days(y) = 356 THEN 2
    ELSE IF elapsed_days(y) - elapsed_days(y - 1) = 382 THEN 1
    ELSE 0

\* the ordinal of 1 Tishri of year y
HebrewEpoch == 0 - 1373427

rosh_hashana(y) == HebrewEpoch + elapsed_days(y) + year_length_correction(y)

days_in_jewish_year(y) == rosh_hashana(y + 1) - rosh_hashana(y)

days_in_jewish_month(m, y) ==
    IF m \in {2, 4, 6, 10, 13} THEN 29
    ELSE IF m = 12 THEN (IF is_jewish_leap_year(y) THEN 30 ELSE 29)
    ELSE IF m = 8 THEN (IF days_in_jewish_year(y) % 10 = 5 THEN 30 ELSE 29)
    ELSE IF m = 9 THEN (IF days_in_jewish_year(y) % 10 = 3 THEN 29 ELSE 30)
    ELSE 30

\* the months of year y in calendar order, from Tishri
month_order(y) ==
    IF is_jewish_leap_year(y) THEN <<7, 8, 9, 10, 11, 12, 13, 1, 2, 3, 4, 5, 6>>
    ELSE <<7, 8, 9, 10, 11, 12, 1, 2, 3, 4, 5, 6>>

RECURSIVE days_before_position(_, _)
days_before_position(y, i) ==
    IF i = 1 THEN 0
    ELSE days_before_position(y, i - 1) + days_in_jewish_month(month_order(y)[i - 1], y)

position_of(y, m) == CHOOSE i \in 1..Len(month_order(y)) : month_order(y)[i] = m

\* the Gregorian ordinal of a valid Jewish date
jewish_to_ordinal(y, m, d) ==
    rosh_hashana(y) + days_before_position(y, position_of(y, m)) + d - 1

\* the Jewish years that the dates of the model can fall in
JewishYears == 5783..5788

\* JewishCalendar(date): jewish_year, jewish_month, jewish_day of a Gregorian date
JewishCalendar(ordinal) ==
    LET y == CHOOSE yy \in JewishYears :
                 rosh_hashana(yy) <= ordinal /\ ordinal < rosh_hashana(yy + 1)
        i == CHOOSE k \in 1..Len(month_order(y)) :
                 /\ rosh_hashana(y) + days_before_position(y, k) <= ordinal
                 /\ ordinal < rosh_hashana(y) + days_before_position(y, k)
                                + days_in_jewish_month(month_order(y)[k], y)
        m == month_order(y)[i]
    IN  [ jewish_year |-> y, jewish_month |-> m,
          jewish_day |-> ordinal - jewish_to_ordinal(y, m, 1) + 1 ]

\* set_jewish_date(year, month, day) followed by .gregorian_date.  A month or a
\* day beyond the year's or the month's last is either refused (ValueError) or
\* replaced by the last one, depending on the installed calendar package.
set_jewish_date(strict, y, m, d) ==
    LET max_months == months_in_jewish_year(y)
        month      == IF m > max_months THEN max_months ELSE m
        max_days   == days_in_jewish_month(month, y)
        day        == IF d > max_days THEN max_days ELSE d
    IN  IF strict /\ (m > max_months \/ d > max_days)
        THEN None
        ELSE Some(jewish_to_ordinal(y, month, day))

-----------------------------------------------------------------------------
(* Rounding and formatting helpers of ShabbatScheduleGenerator.            *)

\* division that truncates toward zero instead of flooring
round_toward_zero_five(minutes) ==
    IF minutes >= 0 THEN (minutes \div 5) * 5 ELSE 0 - (((0 - minutes) \div 5) * 5)

round_to_nearest_five(minutes) == (minutes \div 5) * 5

\* a bias of 5 instead of 4: always the next multiple above
round_to_following_five(minutes) == ((minutes + 5) \div 5) * 5

round_to_next_five(minutes) == ((minutes + 4) \div 5) * 5

\* format_time: "" for None or a negative count, otherwise "HH:MM" as <<h, m>>
format_time(o) ==
    IF IsNone(o) \/ Val(o) < 0 THEN <<>>
    ELSE << Val(o) \div 60, Val(o) % 60 >>

\* datetime.strftime("%H:%M"): the seconds are dropped
strftime_HM(t) == << t.hour, t.minute >>

\* to_minutes: "HH:MM" -> h * 60 + m
to_minutes(s) == s[1] * 60 + s[2]

\* shabbat_start.hour * 60 + shabbat_start.minute
minutes_of(t) == t.hour * 60 + t.minute

-----------------------------------------------------------------------------
(* calculate_times of src/horaires_shabbat.py.                             *)

\* the evening-psalms entry: floor5(start - 10) with the minimum-gap override
shir_hashirim_missing_gap(start_minutes) ==
    round_to_next_five(start_minutes - 10)

shir_hashirim_of(start_minutes) ==
    LET rounded == round_to_nearest_five(start_minutes - 10)
    IN  IF start_minutes - rounded < 10 THEN start_minutes - 10 ELSE rounded

\* both weekday entries taken from Sunday's sunset alone
weekday_entries_sunday_only(sunday_sunset, thursday_sunset) ==
    IF ~IsNone(sunday_sunset) /\ ~IsNone(thursday_sunset)
    THEN LET sunday_sunset_min == to_minutes(strftime_HM(Val(sunday_sunset)))
         IN  [ mincha_hol |-> Some(round_to_nearest_five(sunday_sunset_min - 18)),
               arvit_hol  |-> Some(round_to_next_five(sunday_sunset_min + 20)) ]
    ELSE [ mincha_hol |-> None, arvit_hol |-> None ]

\* the weekday entries, from the two sunset samples (None when unavailable)
weekday_entries(sunday_sunset, thursday_sunset) ==
    IF ~IsNone(sunday_sunset) /\ ~IsNone(thursday_sunset)
    THEN LET sunday_sunset_min   == to_minutes(strftime_HM(Val(sunday_sunset)))
             thursday_sunset_min == to_minutes(strftime_HM(Val(thursday_sunset)))
             min_sunset          == Min2(sunday_sunset_min, thursday_sunset_min)
             max_sunset          == Max2(sunday_sunset_min, thursday_sunset_min)
         IN  [ mincha_hol |-> Some(round_to_nearest_five(min_sunset - 18)),
               arvit_hol  |-> Some(round_to_next_five(max_sunset + 20)) ]
    ELSE [ mincha_hol |-> None, arvit_hol |-> None ]

\* the closing evening service 5 minutes before the end, as src/united3.py has it
calculate_times_closing_five(self_season_, shabbat_start, shabbat_end, sunday_sunset, thursday_sunset) ==
    LET start_minutes == minutes_of(shabbat_start)
        end_minutes   == minutes_of(shabbat_end)
        tehilim_ete   == round_to_nearest_five(17 * 60)
        tehilim_hiver == round_to_nearest_five(14 * 60)
        mincha_2      == round_to_nearest_five(end_minutes - 90)
        shiur_rav     == round_to_nearest_five(mincha_2 - 45)
        hol           == weekday_entries(sunday_sunset, thursday_sunset)
    IN  [ revision          |-> "horaires_shabbat",
          mincha_kabbalat   |-> start_minutes,
          shir_hashirim     |-> shir_hashirim_of(start_minutes),
          shacharit         |-> round_to_nearest_five(7 * 60 + 45),
          mincha_gdola      |-> round_to_nearest_five(
                                   12 * 60 + (IF self_season_ = "winter" THEN 30 ELSE 60)),
          tehilim           |-> IF self_season_ = "summer" THEN tehilim_ete ELSE tehilim_hiver,
          tehilim_ete       |-> tehilim_ete,
          tehilim_hiver     |-> tehilim_hiver,
          shiur_nashim      |-> 16 * 60 + 15,
          arvit_hol         |-> hol.arvit_hol,
          arvit_motsach     |-> round_to_nearest_five(end_minutes - 5),
          mincha_2          |-> mincha_2,
          shiur_rav         |-> shiur_rav,
          parashat_hashavua |-> round_to_nearest_five(shiur_rav - 45),
          mincha_hol        |-> hol.mincha_hol ]

calculate_times(self_season_, shabbat_start, shabbat_end, sunday_sunset, thursday_sunset) ==
    LET start_minutes == minutes_of(shabbat_start)
        end_minutes   == minutes_of(shabbat_end)
        tehilim_ete   == round_to_nearest_five(17 * 60)
        tehilim_hiver == round_to_nearest_five(14 * 60)
        mincha_2      == round_to_nearest_five(end_minutes - 90)
        shiur_rav     == round_to_nearest_five(mincha_2 - 45)
        hol           == weekday_entries(sunday_sunset, thursday_sunset)
    IN  [ revision          |-> "horaires_shabbat",
          mincha_kabbalat   |-> start_minutes,
          shir_hashirim     |-> shir_hashirim_of(start_minutes),
          shacharit         |-> round_to_nearest_five(7 * 60 + 45),
          mincha_gdola      |-> round_to_nearest_five(
                                   12 * 60 + (IF self_season_ = "winter" THEN 30 ELSE 60)),
          tehilim           |-> IF self_season_ = "summer" THEN tehilim_ete ELSE tehilim_hiver,
          tehilim_ete       |-> tehilim_ete,
          tehilim_hiver     |-> tehilim_hiver,
          shiur_nashim      |-> 16 * 60 + 15,
          arvit_hol         |-> hol.arvit_hol,
          arvit_motsach     |-> round_to_nearest_five(end_minutes - 9),
          mincha_2          |-> mincha_2,
          shiur_rav         |-> shiur_rav,
          parashat_hashavua |-> round_to_nearest_five(shiur_rav - 45),
          mincha_hol        |-> hol.mincha_hol ]

\* compute_times of update_excel_with_mevarchim_column: the four cells of a row,
\* from the sunsets of the Sunday and the Thursday after it
compute_times(s_sunday_sunset, s_thu_sunset) ==
    LET sunday_sunset   == strftime_HM(s_sunday_sunset)
        thursday_sunset == strftime_HM(s_thu_sunset)
    IN  IF sunday_sunset # <<>> /\ thursday_sunset # <<>>
        THEN LET sunday_sunset_min   == to_minutes(sunday_sunset)
                 thursday_sunset_min == to_minutes(thursday_sunset)
                 min_sunset          == Min2(sunday_sunset_min, thursday_sunset_min)
                 max_sunset          == Max2(sunday_sunset_min, thursday_sunset_min)
             IN  [ status          |-> "returned",
                   sunday_sunset   |-> sunday_sunset,
                   thursday_sunset |-> thursday_sunset,
                   minha_midweek   |-> format_time(Some(round_to_nearest_five(min_sunset - 18))),
                   arvit_midweek   |-> format_time(Some(round_to_next_five(max_sunset + 20))) ]
        ELSE [ status          |-> "returned",
               sunday_sunset   |-> sunday_sunset,
               thursday_sunset |-> thursday_sunset,
               minha_midweek   |-> <<>>,
               arvit_midweek   |-> <<>> ]

-----------------------------------------------------------------------------
(* calculate_times of src/united3.py: the weekday evening service is taken *)
(* from the two dusk samples, the weekday mincha from the two sunsets.     *)

arvit_hol_united3(sunday_dusk, thursday_dusk) ==
    LET sunday_dusk_str   == IF IsNone(sunday_dusk) THEN None
                             ELSE Some(strftime_HM(Val(sunday_dusk)))
        thursday_dusk_str == IF IsNone(thursday_dusk) THEN None
                             ELSE Some(strftime_HM(Val(thursday_dusk)))
    IN  IF ~IsNone(sunday_dusk_str) /\ ~IsNone(thursday_dusk_str)
        THEN LET tse_dimanche   == to_minutes(Val(sunday_dusk_str))
                 tse_jeudi      == to_minutes(Val(thursday_dusk_str))
                 moyenne        == (tse_dimanche + tse_jeudi) \div 2
                 tse_min        == Min2(tse_dimanche, tse_jeudi)
                 new_arvit_time == round_to_nearest_five(moyenne)
             IN  IF tse_min - new_arvit_time > 3
                 THEN Some(((tse_min - 3 + 4) \div 5) * 5)
                 ELSE Some(new_arvit_time)
        ELSE Some(0)

mincha_hol_united3(sunday_sunset, thursday_sunset) ==
    LET sunday_sunset_str   == IF IsNone(sunday_sunset) THEN None
                               ELSE Some(strftime_HM(Val(sunday_sunset)))
        thursday_sunset_str == IF IsNone(thursday_sunset) THEN None
                               ELSE Some(strftime_HM(Val(thursday_sunset)))
    IN  IF ~IsNone(sunday_sunset_str) /\ ~IsNone(thursday_sunset_str)
        THEN Some(round_to_nearest_five(
                 Min2(to_minutes(Val(sunday_sunset_str)),
                      to_minutes(Val(thursday_sunset_str))) - 17))
        ELSE None

calculate_times_united3(self_season_, shabbat_start, shabbat_end, sunday_dusk, thursday_dusk, sunday_sunset, thursday_sunset) ==
    LET start_minutes == minutes_of(shabbat_start)
        end_minutes   == minutes_of(shabbat_end)
        tehilim_ete   == round_to_nearest_five(17 * 60)
        tehilim_hiver == round_to_nearest_five(14 * 60)
        mincha_2      == round_to_nearest_five(end_minutes - 90)
        shiur_rav     == round_to_nearest_five(mincha_2 - 45)
    IN  [ revision          |-> "united3",
          mincha_kabbalat   |-> start_minutes,
          shir_hashirim     |-> shir_hashirim_of(start_minutes),
          shacharit         |-> round_to_nearest_five(7 * 60 + 45),
          mincha_gdola      |-> round_to_nearest_five(
                                   12 * 60 + (IF self_season_ = "winter" THEN 30 ELSE 60)),
          tehilim           |-> IF self_season_ = "summer" THEN tehilim_ete ELSE tehilim_hiver,
          tehilim_ete       |-> tehilim_ete,
          tehilim_hiver     |-> tehilim_hiver,
          shiur_nashim      |-> 16 * 60,
          arvit_hol         |-> arvit_hol_united3(sunday_dusk, thursday_dusk),
          arvit_motsach     |-> round_to_nearest_five(end_minutes - 5),
          mincha_2          |-> mincha_2,
          shiur_rav         |-> shiur_rav,
          parashat_hashavua |-> round_to_nearest_five(shiur_rav - 45),
          mincha_hol        |-> mincha_hol_united3(sunday_sunset, thursday_sunset) ]

-----------------------------------------------------------------------------
(* calculate_times of src/horaires_shabbat_gemini_molad.py: no minimum-gap *)
(* override, the sunsets always read from the sun library.                 *)

calculate_times_gemini_molad(self_season_, shabbat_start, shabbat_end, sunday_sunset, thursday_sunset) ==
    LET start_minutes == minutes_of(shabbat_start)
        end_minutes   == minutes_of(shabbat_end)
        tehilim_ete   == round_to_nearest_five(17 * 60)
        tehilim_hiver == round_to_nearest_five(14 * 60)
        mincha_2      == round_to_nearest_five(end_minutes - 90)
        shiur_rav     == round_to_nearest_five(mincha_2 - 45)
        sunday_sunset_min   == to_minutes(strftime_HM(Val(sunday_sunset)))
        thursday_sunset_min == to_minutes(strftime_HM(Val(thursday_sunset)))
        min_sunset    == Min2(sunday_sunset_min, thursday_sunset_min)
        max_sunset    == Max2(sunday_sunset_min, thursday_sunset_min)
    IN  [ revision          |-> "gemini_molad",
          mincha_kabbalat   |-> start_minutes,
          shir_hashirim     |-> round_to_nearest_five(start_minutes - 10),
          shacharit         |-> round_to_nearest_five(7 * 60 + 45),
          mincha_gdola      |-> round_to_nearest_five(
                                   12 * 60 + (IF self_season_ = "winter" THEN 30 ELSE 60)),
          tehilim           |-> IF self_season_ = "summer" THEN tehilim_ete ELSE tehilim_hiver,
          tehilim_ete       |-> tehilim_ete,
          tehilim_hiver     |-> tehilim_hiver,
          shiur_nashim      |-> 16 * 60 + 15,
          arvit_hol         |-> Some(round_to_next_five(max_sunset + 20)),
          arvit_motsach     |-> round_to_nearest_five(end_minutes - 9),
          mincha_2          |-> mincha_2,
          shiur_rav         |-> shiur_rav,
          parashat_hashavua |-> round_to_nearest_five(shiur_rav - 45),
          mincha_hol        |-> Some(round_to_nearest_five(min_sunset - 18)) ]

-----------------------------------------------------------------------------
(* calculate_times of src/horaires_shabbat_gemini_last.py: every entry is  *)
(* derived directly from the start or the end, no weekday entries.         *)

\* the afternoon class 130 minutes before the end
calculate_times_gemini_last_slip(self_season_, shabbat_start, shabbat_end) ==
    LET start_minutes == minutes_of(shabbat_start)
        end_minutes   == minutes_of(shabbat_end)
        tehilim_ete   == round_to_nearest_five(17 * 60)
        tehilim_hiver == round_to_nearest_five(14 * 60)
    IN  [ revision          |-> "gemini_last",
          mincha_kabbalat   |-> start_minutes,
          shir_hashirim     |-> round_to_nearest_five(start_minutes - 10),
          shacharit         |-> round_to_nearest_five(7 * 60 + 45),
          mincha_gdola      |-> round_to_nearest_five(
                                   12 * 60 + (IF self_season_ = "winter" THEN 30 ELSE 60)),
          tehilim           |-> IF self_season_ = "summer" THEN tehilim_ete ELSE tehilim_hiver,
          tehilim_ete       |-> tehilim_ete,
          tehilim_hiver     |-> tehilim_hiver,
          shiur_nashim      |-> 16 * 60 + 15,
          arvit_hol         |-> None,
          arvit_motsach     |-> round_to_nearest_five(end_minutes - 9),
          mincha_2          |-> round_to_nearest_five(end_minutes - 90),
          shiur_rav         |-> round_to_nearest_five(end_minutes - 130),
          parashat_hashavua |-> round_to_nearest_five(end_minutes - 180),
          mincha_hol        |-> None ]

calculate_times_gemini_last(self_season_, shabbat_start, shabbat_end) ==
    LET start_minutes == minutes_of(shabbat_start)
        end_minutes   == minutes_of(shabbat_end)
        tehilim_ete   == round_to_nearest_five(17 * 60)
        tehilim_hiver == round_to_nearest_five(14 * 60)
    IN  [ revision          |-> "gemini_last",
          mincha_kabbalat   |-> start_minutes,
          shir_hashirim     |-> round_to_nearest_five(start_minutes - 10),
          shacharit         |-> round_to_nearest_five(7 * 60 + 45),
          mincha_gdola      |-> round_to_nearest_five(
                                   12 * 60 + (IF self_season_ = "winter" THEN 30 ELSE 60)),
          tehilim           |-> IF self_season_ = "summer" THEN tehilim_ete ELSE tehilim_hiver,
          tehilim_ete       |-> tehilim_ete,
          tehilim_hiver     |-> tehilim_hiver,
          shiur_nashim      |-> 16 * 60 + 15,
          arvit_hol         |-> None,
          arvit_motsach     |-> round_to_nearest_five(end_minutes - 9),
          mincha_2          |-> round_to_nearest_five(end_minutes - 90),
          shiur_rav         |-> round_to_nearest_five(end_minutes - 135),
          parashat_hashavua |-> round_to_nearest_five(end_minutes - 180),
          mincha_hol        |-> None ]

-----------------------------------------------------------------------------
(* Inputs of the schedule derivation.                                      *)

Time(h, m, s) == [hour |-> h, minute |-> m, second |-> s]

\* every clock time a "%H:%M" cell of the yearly table can hold
ClockTimes == { Time(h, m, 0) : h \in 0..23, m \in 0..59 }

FromMinutes(n) == Time(n \div 60, n % 60, 0)

\* the ends tried with a start: later the same day (valid anchors), equal, earlier
ShortGap == 1

LongGap == 59

EndChoices(start) ==
    { FromMinutes(minutes_of(start) + g) :
        g \in { x \in {ShortGap, LongGap} : minutes_of(start) + x < 24 * 60 } }
    \cup { start, Time(0, 0, 0) }

\* sunset and dusk samples as the sun library returns them (with seconds)
SampleA == Time(17, 40, 12)

SampleB == Time(17, 52, 47)

MarkerPairs ==
    { <<Some(SampleA), Some(SampleB)>>, <<Some(SampleB), Some(SampleA)>>,
      <<None, Some(SampleA)>>, <<Some(SampleB), None>>, <<None, None>> }

\* the starts tried with the united3 revision
StartSamples == { Time(0, 5, 0), Time(16, 17, 0), Time(16, 33, 0), Time(19, 31, 0) }

NoTimes == [revision |-> "none"]

Seasons == {"summer", "winter"}

\* two runs of the program, each constructing one generator object
Runs == {1, 2}

NotConstructed == [year |-> 0]

NotGenerated == [generated |-> FALSE]

BothMarkers == <<Some(SampleA), Some(SampleB)>>

\* the argument lists of the calls of calculate_times (horaires_shabbat.py):
\* every start with each of its ends, and every start with each marker pair
CallsMain ==
    UNION { { [ revision |-> "horaires_shabbat", start |-> st, end |-> c[1],
                sunday_sunset |-> c[2][1], thursday_sunset |-> c[2][2],
                sunday_dusk |-> None, thursday_dusk |-> None ] :
              c \in (EndChoices(st) \X {BothMarkers})
                    \cup ({FromMinutes((minutes_of(st) + LongGap) % (24 * 60))} \X MarkerPairs) } :
            st \in ClockTimes }

\* the argument lists of the calls of calculate_times (united3.py)
CallsUnited3 ==
    UNION { { [ revision |-> "united3", start |-> st, end |-> en,
                sunday_sunset |-> suns[1], thursday_sunset |-> suns[2],
                sunday_dusk |-> dusks[1], thursday_dusk |-> dusks[2] ] :
              en \in EndChoices(st), suns \in MarkerPairs, dusks \in MarkerPairs } :
            st \in StartSamples }

\* the sunsets of Ramat Gan through the year, to the minute
FirstSunset == 16 * 60

LastSunset == 20 * 60 + 30

\* how far the Thursday sunset lies from the Sunday sunset, in minutes
MaxDrift == 7

SunsetPairs ==
    UNION { { << [hour |-> su \div 60, minute |-> su % 60, second |-> 30],
                 [hour |-> (su + d) \div 60, minute |-> (su + d) % 60, second |-> 0] >> :
              d \in (0 - MaxDrift)..MaxDrift } :
            su \in FirstSunset..LastSunset }

\* the calls of calculate_times for one row with each pair of sunsets
CallsSunsets ==
    { [ revision |-> "horaires_shabbat", start |-> Time(16, 17, 0), end |-> Time(17, 16, 0),
        sunday_sunset |-> Some(p[1]), thursday_sunset |-> Some(p[2]),
        sunday_dusk |-> None, thursday_dusk |-> None ] : p \in SunsetPairs }

\* the rows compute_times is applied to: the two sunsets it obtains for a row
CallsCompute ==
    { [ revision |-> "compute_times", sunday_sunset |-> p[1], thursday_sunset |-> p[2] ] :
        p \in SunsetPairs \cup { <<SampleA, SampleB>>, <<SampleB, SampleA>> } }

\* the calls of calculate_times of the two other revisions: every start with an
\* end LongGap minutes later, which passes through every end of the day
CallsGemini ==
    { [ revision |-> r, start |-> st,
        end |-> FromMinutes((minutes_of(st) + LongGap) % (24 * 60)),
        sunday_sunset |-> Some(SampleA), thursday_sunset |-> Some(SampleB),
        sunday_dusk |-> None, thursday_dusk |-> None ] :
        r \in {"gemini_molad", "gemini_last"}, st \in ClockTimes }

-----------------------------------------------------------------------------
(* The schedule derivation on its own: one generator object, whose season  *)
(* was fixed at construction, and one call of calculate_times on it.       *)

NoResult == [status |-> "none"]

\* the parts of the state a specification does not exercise
IdleRuns ==
    /\ now = 1
    /\ season = [g \in Runs |-> "unset"]
    /\ constructedAt = [g \in Runs |-> NotConstructed]
    /\ schedule = [g \in Runs |-> NotGenerated]

IdleTimes ==
    /\ self_season = "unset"
    /\ anchors = [revision |-> "none"]
    /\ times = NoTimes
    /\ midweek = NoResult

IdleLunar ==
    /\ calendar_strict = FALSE
    /\ ref_date = 0
    /\ rc_days = NoResult
    /\ molad = NoResult

IdleMevarchim ==
    /\ shabbat_days = {}
    /\ rosh_dates = {}
    /\ mevarchim = NoResult

IdleRound ==
    /\ round_arg = 0
    /\ round_result = NoResult

IdleLevana ==
    /\ levana_date = 0
    /\ molad_obj = NoResult
    /\ levana = NoResult

IdleTekufa ==
    /\ index = 0
    /\ cal_events = <<>>
    /\ ics_file = None
    /\ tekufa_list = <<>>
    /\ tekufa = NoResult

\* the parts added by the rounding, Birkat Halevana and tekufa functions
IdleLater == IdleRound /\ IdleLevana /\ IdleTekufa

IdleColumn == tekufa_col = NoResult

IdleDates ==
    /\ row_day = 0
    /\ sample_dates = NoResult

IdleFast ==
    /\ fast_lines = <<>>
    /\ fast_calls = NoResult

IdleSearch ==
    /\ search_date = 0
    /\ prev_found = NoResult
    /\ next_search = NoResult

IdleParse ==
    /\ ics_lines = <<>>
    /\ parsed_tekufot = NoResult
    /\ parsed_fasts = NoResult

IdleHebrew ==
    /\ hebrew_num = 0
    /\ hebrew_text = NoResult

IdleDeliver ==
    /\ calendar_fault = "none"
    /\ gen_row = NoResult
    /\ gen_step = "idle"
    /\ image = NoResult
    /\ excel_row = NoResult

\* the parts of the remaining functions
IdleLast ==
    /\ IdleColumn /\ IdleDates /\ IdleFast /\ IdleSearch
    /\ IdleParse /\ IdleHebrew /\ IdleDeliver

InitTimes ==
    /\ self_season \in Seasons
    /\ anchors \in CallsMain \cup CallsSunsets \cup CallsUnited3 \cup CallsCompute \cup CallsGemini
    /\ times = NoTimes
    /\ midweek = NoResult
    /\ IdleRuns /\ IdleLunar /\ IdleMevarchim /\ IdleLater /\ IdleLast

CalculateTimes ==
    /\ times = NoTimes
    /\ anchors.revision = "horaires_shabbat"
    /\ times' = calculate_times(self_season, anchors.start, anchors.end,
                                anchors.sunday_sunset, anchors.thursday_sunset)
    /\ UNCHANGED <<self_season, anchors, midweek, runVars, lunarVars, mevarchimVars, roundVars, levanaVars, tekufaVars, lastVars>>

CalculateTimesUnited3 ==
    /\ times = NoTimes
    /\ anchors.revision = "united3"
    /\ times' = calculate_times_united3(self_season, anchors.start, anchors.end,
                                        anchors.sunday_dusk, anchors.thursday_dusk,
                                        anchors.sunday_sunset, anchors.thursday_sunset)
    /\ UNCHANGED <<self_season, anchors, midweek, runVars, lunarVars, mevarchimVars, roundVars, levanaVars, tekufaVars, lastVars>>

ComputeTimes ==
    /\ midweek = NoResult
    /\ anchors.revision = "compute_times"
    /\ midweek' = compute_times(anchors.sunday_sunset, anchors.thursday_sunset)
    /\ UNCHANGED <<self_season, anchors, times, runVars, lunarVars, mevarchimVars, roundVars, levanaVars, tekufaVars, lastVars>>

CalculateTimesGeminiMolad ==
    /\ times = NoTimes
    /\ anchors.revision = "gemini_molad"
    /\ times' = calculate_times_gemini_molad(self_season, anchors.start, anchors.end,
                                             anchors.sunday_sunset, anchors.thursday_sunset)
    /\ UNCHANGED <<self_season, anchors, midweek, runVars, lunarVars, mevarchimVars, roundVars, levanaVars, tekufaVars, lastVars>>

CalculateTimesGeminiLast ==
    /\ times = NoTimes
    /\ anchors.revision = "gemini_last"
    /\ times' = calculate_times_gemini_last(self_season, anchors.start, anchors.end)
    /\ UNCHANGED <<self_season, anchors, midweek, runVars, lunarVars, mevarchimVars, roundVars, levanaVars, tekufaVars, lastVars>>

NextTimes ==
    \/ CalculateTimes
    \/ CalculateTimesUnited3
    \/ ComputeTimes
    \/ CalculateTimesGeminiMolad
    \/ CalculateTimesGeminiLast

SpecTimes == InitTimes /\ [][NextTimes]_vars

-----------------------------------------------------------------------------
(* The generator object: construction fixes self.season from the wall      *)
(* clock, generate() picks the next row of the yearly table.               *)

determine_season(today) ==
    LET year         == today.year
        start_summer == DateTime(year, 3, 29, 0, 0)
        end_summer   == DateTime(year, 10, 26, 0, 0)
    IN  IF instant_of(start_summer) <= instant_of(today)
           /\ instant_of(today) <= instant_of(end_summer)
        THEN "summer" ELSE "winter"

\* rows of self.yearly_shabbat_data around the two season boundaries
Row(y, mo, d, sh, sm, eh, em) ==
    [ day |-> toordinal(y, mo, d), start |-> Time(sh, sm, 0), end |-> Time(eh, em, 0) ]

yearly_shabbat_data ==
    << Row(2025, 10, 24, 17, 40, 18, 34), Row(2025, 10, 31, 16, 33, 17, 28),
       Row(2025, 11, 7, 16, 27, 17, 23),  Row(2026, 1, 16, 16, 41, 17, 40),
       Row(2026, 3, 27, 18, 39, 19, 34),  Row(2026, 4, 10, 18, 48, 19, 45) >>

\* the readings of the wall clock, in increasing order
Instants ==
    << DateTime(2025, 10, 23, 9, 0),  DateTime(2025, 10, 25, 12, 0),
       DateTime(2025, 10, 26, 0, 0),  DateTime(2025, 10, 26, 12, 0),
       DateTime(2025, 10, 27, 9, 0),  DateTime(2026, 1, 14, 8, 0),
       DateTime(2026, 3, 28, 23, 59), DateTime(2026, 3, 29, 0, 0),
       DateTime(2026, 4, 11, 10, 0) >>

\* get_shabbat_times_from_excel_file: the first row with day >= today, or None
next_row(current_date) ==
    LET later == { i \in 1..Len(yearly_shabbat_data) :
                     yearly_shabbat_data[i].day >= date_of(current_date) }
    IN  IF later = {} THEN None
        ELSE Some(yearly_shabbat_data[
                 CHOOSE i \in later :
                   \A j \in later : yearly_shabbat_data[i].day <= yearly_shabbat_data[j].day])

Init == IdleRuns /\ IdleTimes /\ IdleLunar /\ IdleMevarchim /\ IdleLater /\ IdleLast

\* time passes
Tick ==
    /\ now < Len(Instants)
    /\ now' = now + 1
    /\ UNCHANGED <<season, constructedAt, schedule, timesVars, lunarVars, mevarchimVars, roundVars, levanaVars, tekufaVars, lastVars>>

\* ShabbatScheduleGenerator.__init__
Construct(g) ==
    /\ season[g] = "unset"
    /\ season' = [season EXCEPT ![g] = determine_season(Instants[now])]
    /\ constructedAt' = [constructedAt EXCEPT ![g] = Instants[now]]
    /\ UNCHANGED <<now, schedule, timesVars, lunarVars, mevarchimVars, roundVars, levanaVars, tekufaVars, lastVars>>

\* ShabbatScheduleGenerator.generate
Generate(g) ==
    /\ season[g] # "unset"
    /\ schedule[g] = NotGenerated
    /\ \E suns \in {BothMarkers, <<Some(SampleB), Some(SampleA)>>} :
         LET shabbat_times == next_row(Instants[now])
         IN  schedule' = [schedule EXCEPT ![g] =
                 IF IsNone(shabbat_times)
                 THEN [ generated |-> TRUE, found |-> FALSE ]
                 ELSE LET shabbat == Val(shabbat_times)
                      IN  [ generated |-> TRUE, found |-> TRUE,
                            date |-> shabbat.day,
                            start |-> shabbat.start, end |-> shabbat.end,
                            sunday_sunset |-> suns[1], thursday_sunset |-> suns[2],
                            times |-> calculate_times(season[g], shabbat.start,
                                                      shabbat.end, suns[1], suns[2]) ] ]
    /\ UNCHANGED <<now, season, constructedAt, timesVars, lunarVars, mevarchimVars, roundVars, levanaVars, tekufaVars, lastVars>>

Next ==
    \/ Tick
    \/ \E g \in Runs : Construct(g)
    \/ \E g \in Runs : Generate(g)

Spec == Init /\ [][Next]_vars

-----------------------------------------------------------------------------
(* The lunar functions of src/horaires_shabbat.py.                         *)

\* the month after (current_jyear, current_jmonth), as both functions compute it
next_month_wraps_at_12(current_jyear, current_jmonth) ==
    IF current_jmonth = 12
    THEN [ jyear |-> current_jyear + 1, jmonth |-> 1 ]
    ELSE [ jyear |-> current_jyear, jmonth |-> current_jmonth + 1 ]

next_month_state(current_jyear, current_jmonth) ==
    IF current_jmonth = 13
    THEN [ jyear |-> current_jyear + 1, jmonth |-> 1 ]
    ELSE [ jyear |-> current_jyear, jmonth |-> current_jmonth + 1 ]

Raised == [status |-> "raised"]

\* a variant that also lists a "day 30" for a 29-day month
rosh_chodesh_days_always_two(strict, shabbat_date) ==
    LET jc   == JewishCalendar(shabbat_date)
        next == next_month_state(jc.jewish_year, jc.jewish_month)
        rc1  == set_jewish_date(strict, next.jyear, next.jmonth, 1)
        rc0  == set_jewish_date(FALSE, jc.jewish_year, jc.jewish_month, 30)
    IN  IF IsNone(rc1) THEN Raised
        ELSE [ status |-> "returned",
               days   |-> << <<Val(rc0), jc.jewish_month, jc.jewish_year, 30>>,
                             <<Val(rc1), next.jmonth, next.jyear, 1>> >> ]

get_rosh_chodesh_days_for_next_month(strict, shabbat_date) ==
    LET jc            == JewishCalendar(shabbat_date)
        current_jyear == jc.jewish_year
        current_jmonth == jc.jewish_month
        next          == next_month_state(current_jyear, current_jmonth)
        days_in_current_month == days_in_jewish_month(current_jmonth, current_jyear)
        rc1_gdate     == set_jewish_date(strict, next.jyear, next.jmonth, 1)
        rc0_gdate     == set_jewish_date(strict, current_jyear, current_jmonth, 30)
    IN  IF IsNone(rc1_gdate) THEN Raised
        ELSE [ status |-> "returned",
               days   |-> (IF days_in_current_month = 30
                           THEN << <<Val(rc0_gdate), current_jmonth, current_jyear, 30>> >>
                           ELSE << >>)
                          \o << <<Val(rc1_gdate), next.jmonth, next.jyear, 1>> >> ]

\* get_weekday_name_hebrew: the index into HEBREW_DAYS, 0 for the first day (Sunday)
get_weekday_name_hebrew(dt) == (weekday(dt) + 1) % 7

\* get_next_month_molad: the month whose molad is asked of the calendar and
\* the day the molad is attributed to
get_next_month_molad(strict, shabbat_date) ==
    LET jc   == JewishCalendar(shabbat_date)
        next == next_month_state(jc.jewish_year, jc.jewish_month)
        gregorian_date == set_jewish_date(strict, next.jyear, next.jmonth, 1)
    IN  IF IsNone(gregorian_date) THEN Raised
        ELSE LET molad_date == Val(gregorian_date) - 1
             IN  [ status |-> "returned",
                   next_jyear |-> next.jyear, next_jmonth |-> next.jmonth,
                   month_start |-> Val(gregorian_date),
                   molad_date |-> molad_date,
                   weekday_he |-> get_weekday_name_hebrew(molad_date) ]

\* the reference dates: from Adar I of the leap year 5784 to Nisan of the plain
\* year 5785 (second Adar of 5784, Elul of 5784 and Adar of 5785 included)
FirstRefDate == toordinal(2024, 3, 1)

NumRefDates == 400

RefDates == FirstRefDate .. (FirstRefDate + NumRefDates - 1)

InitLunar ==
    /\ calendar_strict \in BOOLEAN
    /\ ref_date \in RefDates
    /\ rc_days = NoResult
    /\ molad = NoResult
    /\ IdleRuns /\ IdleTimes /\ IdleMevarchim /\ IdleLater /\ IdleLast

RoshChodeshDays ==
    /\ rc_days = NoResult
    /\ rc_days' = get_rosh_chodesh_days_for_next_month(calendar_strict, ref_date)
    /\ UNCHANGED <<calendar_strict, ref_date, molad, runVars, timesVars, mevarchimVars, roundVars, levanaVars, tekufaVars, lastVars>>

NextMonthMolad ==
    /\ molad = NoResult
    /\ molad' = get_next_month_molad(calendar_strict, ref_date)
    /\ UNCHANGED <<calendar_strict, ref_date, rc_days, runVars, timesVars, mevarchimVars, roundVars, levanaVars, tekufaVars, lastVars>>

NextLunar == RoshChodeshDays \/ NextMonthMolad

SpecLunar == InitLunar /\ [][NextLunar]_vars

-----------------------------------------------------------------------------
(* Shabbat Mevarchim: get_mevarchim_friday and identify_shabbat_mevarchim.  *)

\* the same step of one week for a Saturday as for a Friday
get_mevarchim_friday_one_week(rosh_date) ==
    IF weekday(rosh_date) \in {4, 5} THEN rosh_date - 7
    ELSE rosh_date - ((weekday(rosh_date) - 4 + 7) % 7)

get_mevarchim_friday(rosh_date) ==
    IF weekday(rosh_date) = 4 THEN rosh_date - 7
    ELSE IF weekday(rosh_date) = 5 THEN rosh_date - 8
    ELSE rosh_date - ((weekday(rosh_date) - 4 + 7) % 7)

\* the nearest Friday on or before the date, with no guard
is_mevarchim_nearest_friday(candidate_friday, rosh_chodesh_date) ==
    candidate_friday = rosh_chodesh_date - ((weekday(rosh_chodesh_date) - 4 + 7) % 7)

\* whether rd marks the Friday: the test of the loop body
is_mevarchim(candidate_friday, rosh_chodesh_date) ==
    LET mevarchim_friday == get_mevarchim_friday(rosh_chodesh_date)
    IN  mevarchim_friday < rosh_chodesh_date /\ mevarchim_friday = candidate_friday

\* the column: day in mevarchim_set
identify_shabbat_mevarchim(days, rosh_dates_) ==
    [ d \in days |-> \E rd \in rosh_dates_ : is_mevarchim(d, rd) ]

\* the table: consecutive Fridays from the row of 2025-10-17
FirstFriday == toordinal(2025, 10, 17)

NumWeeks == 5

TableDays == { FirstFriday + 7 * w : w \in 0..(NumWeeks - 1) }

\* fetch_roshchodesh_dates(min_date, max_date + 7 days): at most two dates
FetchWindow == FirstFriday .. (FirstFriday + 7 * NumWeeks)

FetchedRoshDates ==
    { {} } \cup { {a, b} : a \in FetchWindow, b \in FetchWindow }

InitMevarchim ==
    /\ shabbat_days = TableDays
    /\ rosh_dates \in FetchedRoshDates
    /\ mevarchim = NoResult
    /\ IdleRuns /\ IdleTimes /\ IdleLunar /\ IdleLater /\ IdleLast

IdentifyShabbatMevarchim ==
    /\ mevarchim = NoResult
    /\ mevarchim' = [ status |-> "returned",
                      column |-> identify_shabbat_mevarchim(shabbat_days, rosh_dates),
                      fridays |-> [rd \in rosh_dates |-> get_mevarchim_friday(rd)] ]
    /\ UNCHANGED <<shabbat_days, rosh_dates, runVars, timesVars, lunarVars, roundVars, levanaVars, tekufaVars, lastVars>>

NextMevarchim == IdentifyShabbatMevarchim

SpecMevarchim == InitMevarchim /\ [][NextMevarchim]_vars

-----------------------------------------------------------------------------
(* Claims about the schedule derivation (SpecTimes).                       *)

IsValidAnchors == minutes_of(anchors.end) > minutes_of(anchors.start)

Returned == times.revision # "none"

-----------------------------------------------------------------------------
\* C1: for valid anchors (end > start) the evening-psalms time shir_hashirim
\* returned by calculate_times is never later than start - 10 minutes.
C1_EveningPsalmsGap ==
    (Returned /\ IsValidAnchors)
        => times.shir_hashirim <= minutes_of(anchors.start) - 10

\* a call with valid anchors in which rounding moved the time 4 minutes below start - 10
C1_Witness ==
    /\ Returned /\ IsValidAnchors
    /\ times.shir_hashirim = minutes_of(anchors.start) - 14

\* C2 (as claimed): for well-formed anchors every entry of the returned schedule
\* is None or a minute count in 0..1439.
IsClockOrNone(o) == IsNone(o) \/ Val(o) \in 0..(24 * 60 - 1)

C2_EntriesAreClockTimes ==
    (times.revision = "horaires_shabbat" /\ IsValidAnchors)
        => /\ \A k \in {"mincha_kabbalat", "shir_hashirim", "shacharit", "mincha_gdola",
                        "tehilim", "tehilim_ete", "tehilim_hiver", "shiur_nashim",
                        "arvit_motsach", "mincha_2", "shiur_rav", "parashat_hashavua"} :
                 IsClockOrNone(Some(times[k]))
           /\ IsClockOrNone(times.arvit_hol)
           /\ IsClockOrNone(times.mincha_hol)

\* C3 (as claimed): anchors with end <= start are rejected, no schedule is
\* produced for them.
C3_InvalidAnchorsRejected == Returned => IsValidAnchors

\* C4 (as claimed): when a weekday marker the revision reads (sunset, and dusk in
\* united3) is unavailable, both weekday entries are None and neither is 0.
MarkerUnavailable ==
    \/ IsNone(anchors.sunday_sunset) \/ IsNone(anchors.thursday_sunset)
    \/ /\ anchors.revision = "united3"
       /\ (IsNone(anchors.sunday_dusk) \/ IsNone(anchors.thursday_dusk))

C4_WeekdayEntriesAbsent ==
    (Returned /\ MarkerUnavailable)
        => IsNone(times.mincha_hol) /\ IsNone(times.arvit_hol)

-----------------------------------------------------------------------------
(* Claims about the season of a generator (Spec).                          *)

\* C5 (as claimed): the season is summer exactly for the instants whose calendar
\* date lies in 29 March .. 26 October inclusive, at any time of day.
InSummerDates(dt) ==
    /\ (dt.month > 3 \/ (dt.month = 3 /\ dt.day >= 29))
    /\ (dt.month < 10 \/ (dt.month = 10 /\ dt.day <= 26))

C5_SeasonByDate ==
    \A g \in Runs :
        season[g] # "unset"
            => (season[g] = "summer" <=> InSummerDates(constructedAt[g]))

\* C6 (as claimed): two computations for the same Shabbat date and the same
\* anchors yield the same regime-dependent entries, whenever the generators
\* were constructed.
C6_RegimeFromShabbatDateAlone ==
    \A g1, g2 \in Runs :
        ( /\ schedule[g1].generated /\ schedule[g1].found
          /\ schedule[g2].generated /\ schedule[g2].found
          /\ schedule[g1].date = schedule[g2].date
          /\ schedule[g1].start = schedule[g2].start
          /\ schedule[g1].end = schedule[g2].end
          /\ schedule[g1].sunday_sunset = schedule[g2].sunday_sunset
          /\ schedule[g1].thursday_sunset = schedule[g2].thursday_sunset )
        => /\ schedule[g1].times.mincha_gdola = schedule[g2].times.mincha_gdola
           /\ schedule[g1].times.tehilim = schedule[g2].times.tehilim

-----------------------------------------------------------------------------
(* Claims about the lunar functions (SpecLunar).                           *)

LastEntry == rc_days.days[Len(rc_days.days)]

following_month(y, m) ==
    IF m = 6 THEN [ jyear |-> y + 1, jmonth |-> 7 ]
    ELSE IF m = months_in_jewish_year(y) THEN [ jyear |-> y, jmonth |-> 1 ]
    ELSE [ jyear |-> y, jmonth |-> m + 1 ]

\* C8 (as claimed): the (year, month) both functions use as the next month is the
\* month that follows the reference date's month in the calendar's order, and
\* the day-1 date is 1 to 30 days after the reference date.
C8_NextMonthFollows ==
    LET jc  == JewishCalendar(ref_date)
        nxt == following_month(jc.jewish_year, jc.jewish_month)
    IN  /\ rc_days.status = "returned" =>
              /\ LastEntry[2] = nxt.jmonth /\ LastEntry[3] = nxt.jyear
              /\ LastEntry[1] - ref_date \in 1..30
        /\ molad.status = "returned" =>
              /\ molad.next_jmonth = nxt.jmonth /\ molad.next_jyear = nxt.jyear
              /\ molad.month_start - ref_date \in 1..30

\* C9: both functions map a reference month 13 to month 1 of year + 1 and every
\* other month m to month m + 1 of the same year.
C9_NextMonthRule ==
    LET jc == JewishCalendar(ref_date)
        expected_month == IF jc.jewish_month = 13 THEN 1 ELSE jc.jewish_month + 1
        expected_year  == IF jc.jewish_month = 13 THEN jc.jewish_year + 1 ELSE jc.jewish_year
    IN  /\ rc_days.status = "returned" =>
              LastEntry[2] = expected_month /\ LastEntry[3] = expected_year
        /\ molad.status = "returned" =>
              molad.next_jmonth = expected_month /\ molad.next_jyear = expected_year

\* both functions returned for a reference date in month 13 and in another month
C9_Witness ==
    /\ rc_days.status = "returned" /\ molad.status = "returned"
    /\ JewishCalendar(ref_date).jewish_month = 13
    /\ LastEntry[2] = 1 /\ molad.next_jmonth = 1

-----------------------------------------------------------------------------
(* Claims about Shabbat Mevarchim (SpecMevarchim).                         *)

\* C10: is_mevarchim is false whenever rosh_chodesh_date <= candidate_friday, and
\* every Friday that identify_shabbat_mevarchim marks is earlier than a fetched
\* Rosh Chodesh date that lies in the 8 days after it.
C10_MarkedFridayBeforeRoshChodesh ==
    mevarchim.status = "returned" =>
        /\ \A d \in shabbat_days : \A rd \in rosh_dates :
               rd <= d => ~is_mevarchim(d, rd)
        /\ \A d \in shabbat_days :
               mevarchim.column[d] => \E rd \in rosh_dates : d < rd /\ rd <= d + 8

\* a table in which a Friday got marked although a fetched Rosh Chodesh date is
\* itself a Friday of the table
C10_Witness ==
    /\ mevarchim.status = "returned"
    /\ \E d \in shabbat_days : mevarchim.column[d]
    /\ \E rd \in rosh_dates : rd \in shabbat_days

\* C11: for a Rosh Chodesh date on any of the seven weekdays the Friday that
\* get_mevarchim_friday returns is a Friday: 7 days earlier when the date is a
\* Friday, 8 days earlier when it is a Saturday, and otherwise the nearest Friday
\* before the date, 2 to 6 days earlier.
C11_MevarchimFridayIsFriday ==
    mevarchim.status = "returned" =>
        \A rd \in rosh_dates :
            LET friday == mevarchim.fridays[rd]
            IN  /\ weekday(friday) = 4
                /\ weekday(rd) = 4 => rd - friday = 7
                /\ weekday(rd) = 5 => rd - friday = 8
                /\ weekday(rd) \notin {4, 5} =>
                       /\ rd - friday \in 2..6
                       /\ \A x \in (friday + 1)..(rd - 1) : weekday(x) # 4

\* a fetch that holds a Saturday and a Wednesday, both stepped back
C11_Witness ==
    /\ mevarchim.status = "returned"
    /\ \E rd \in rosh_dates : weekday(rd) = 5 /\ mevarchim.fridays[rd] = rd - 8
    /\ \E rd \in rosh_dates : weekday(rd) = 2 /\ mevarchim.fridays[rd] = rd - 5

-----------------------------------------------------------------------------
(* The rounding functions applied to any minute count, then to their own   *)
(* results, as calculate_times chains them.                                *)

RoundBelow == 200

RoundAbove == 1500

\* the minute counts tried: below zero, through a day and past its end
MinuteCounts == (0 - RoundBelow)..RoundAbove

InitRound ==
    /\ round_arg \in MinuteCounts
    /\ round_result = NoResult
    /\ IdleRuns /\ IdleTimes /\ IdleLunar /\ IdleMevarchim /\ IdleLevana /\ IdleTekufa /\ IdleLast

RoundOnce ==
    /\ round_result = NoResult
    /\ round_result' = [ status |-> "once",
                          nearest |-> round_to_nearest_five(round_arg),
                          next |-> round_to_next_five(round_arg) ]
    /\ UNCHANGED <<round_arg, runVars, timesVars, lunarVars, mevarchimVars, levanaVars, tekufaVars, lastVars>>

RoundAgain ==
    /\ round_result.status = "once"
    /\ round_result' = [ status |-> "twice",
                          nearest |-> round_result.nearest,
                          next |-> round_result.next,
                          nearest_again |-> round_to_nearest_five(round_result.nearest),
                          next_again |-> round_to_next_five(round_result.next) ]
    /\ UNCHANGED <<round_arg, runVars, timesVars, lunarVars, mevarchimVars, levanaVars, tekufaVars, lastVars>>

NextRound == RoundOnce \/ RoundAgain

SpecRound == InitRound /\ [][NextRound]_vars

-----------------------------------------------------------------------------
(* Claims about the rounding functions (SpecRound).                        *)

Rounded == round_result.status # "none"

\* C17 (as claimed): for a minute count x that is not a multiple of 5,
\* floor5(x) <= x <= ceil5(x) < floor5(x) + 5; for a multiple of 5,
\* floor5(x) = x = ceil5(x).
C17_RoundingBracketsStrict ==
    Rounded =>
        IF round_arg % 5 # 0
        THEN /\ round_result.nearest <= round_arg
             /\ round_arg <= round_result.next
             /\ round_result.next < round_result.nearest + 5
        ELSE round_result.nearest = round_arg /\ round_result.next = round_arg

\* C17 (amended): for a minute count x that is not a multiple of 5,
\* floor5(x) <= x <= ceil5(x) and ceil5(x) = floor5(x) + 5; for a multiple of 5,
\* floor5(x) = x = ceil5(x).
C17_RoundingBrackets ==
    Rounded =>
        IF round_arg % 5 # 0
        THEN /\ round_result.nearest <= round_arg
             /\ round_arg <= round_result.next
             /\ round_result.next = round_result.nearest + 5
        ELSE round_result.nearest = round_arg /\ round_result.next = round_arg

\* 7 minutes lie between 5 and 10, and -7 between -10 and -5
C17_Witness ==
    /\ Rounded
    /\ \/ round_arg = 7 /\ round_result.nearest = 5 /\ round_result.next = 10
       \/ round_arg = 0 - 7 /\ round_result.nearest = 0 - 10 /\ round_result.next = 0 - 5

\* C18: floor5 and ceil5 are idempotent over all integers, negative ones
\* included: applied to their own result they return it unchanged.
C18_RoundingIdempotent ==
    round_result.status = "twice" =>
        /\ round_result.nearest_again = round_result.nearest
        /\ round_result.next_again = round_result.next

\* a negative count off the grid, rounded and rounded again
C18_Witness ==
    /\ round_result.status = "twice"
    /\ round_arg < 0 /\ round_arg % 5 # 0
    /\ round_result.nearest_again < 0 /\ round_result.next_again < 0

-----------------------------------------------------------------------------
(* Claims about the entries derived from the end of Shabbat (SpecTimes).   *)

\* the largest multiple of 5 that is not above x
Floor5(x) == x - (x % 5)

\* the smallest multiple of 5 that is not below x
Ceil5(x) == x + ((5 - (x % 5)) % 5)

ReturnedMain == times.revision = "horaires_shabbat"

\* C19: for every end time calculate_times returns second mincha =
\* floor5(end - 90), afternoon class = floor5(second mincha - 45), pre-sunset
\* class = floor5(afternoon class - 45) and closing evening service =
\* floor5(end - 9).
C19_EndDerivedEntries ==
    ReturnedMain =>
        LET end_minutes == anchors.end.hour * 60 + anchors.end.minute
        IN  /\ times.mincha_2 = Floor5(end_minutes - 90)
            /\ times.shiur_rav = Floor5(times.mincha_2 - 45)
            /\ times.parashat_hashavua = Floor5(times.shiur_rav - 45)
            /\ times.arvit_motsach = Floor5(end_minutes - 9)

\* start 16:17 and end 17:16: the closing evening service is at 17:05
C19_Witness ==
    /\ ReturnedMain
    /\ anchors.start = Time(16, 17, 0) /\ anchors.end = Time(17, 16, 0)
    /\ times.arvit_motsach = 17 * 60 + 5
    /\ times.mincha_2 = 15 * 60 + 45

\* C20: when both weekday markers are available, the weekday mincha is
\* floor5(min(sunset_a, sunset_b) - 18) and the weekday evening service is
\* ceil5(max(sunset_a, sunset_b) + 20), in calculate_times and equally in the
\* columns compute_times writes.
C20_WeekdayEntries ==
    /\ (ReturnedMain /\ ~IsNone(anchors.sunday_sunset) /\ ~IsNone(anchors.thursday_sunset)) =>
          LET a == Val(anchors.sunday_sunset).hour * 60 + Val(anchors.sunday_sunset).minute
              b == Val(anchors.thursday_sunset).hour * 60 + Val(anchors.thursday_sunset).minute
          IN  /\ times.mincha_hol = Some(Floor5((IF a < b THEN a ELSE b) - 18))
              /\ times.arvit_hol = Some(Ceil5((IF a < b THEN b ELSE a) + 20))
    /\ midweek.status = "returned" =>
          LET a == anchors.sunday_sunset.hour * 60 + anchors.sunday_sunset.minute
              b == anchors.thursday_sunset.hour * 60 + anchors.thursday_sunset.minute
              mincha == Floor5((IF a < b THEN a ELSE b) - 18)
              arvit  == Ceil5((IF a < b THEN b ELSE a) + 20)
          IN  /\ midweek.minha_midweek = << mincha \div 60, mincha % 60 >>
              /\ midweek.arvit_midweek = << arvit \div 60, arvit % 60 >>

\* sunsets 17:40 and 17:52 give 17:20 and 18:15, in the dictionary and in the row
C20_Witness ==
    \/ /\ ReturnedMain
       /\ anchors.sunday_sunset = Some(SampleA) /\ anchors.thursday_sunset = Some(SampleB)
       /\ times.mincha_hol = Some(17 * 60 + 20) /\ times.arvit_hol = Some(18 * 60 + 15)
    \/ /\ midweek.status = "returned"
       /\ anchors.sunday_sunset = SampleA /\ anchors.thursday_sunset = SampleB
       /\ midweek.minha_midweek = <<17, 20>> /\ midweek.arvit_midweek = <<18, 15>>

-----------------------------------------------------------------------------
(* Birkat Halevana: the molad instant, the window of the blessing and the  *)
(* message create_image composes for a Shabbat that is not Mevarchim.      *)
(* A datetime is a day ordinal, the second of the day and the microsecond. *)

SecondsPerDay == 24 * 3600

Million == 1000 * 1000

\* datetime.combine(d, datetime.min.time())
combine_min_time(d) == [day |-> d, second |-> 0, microsecond |-> 0]

\* dt + timedelta(days, seconds, microseconds), normalised as datetime does
plus_timedelta(dt, days, seconds, microseconds) ==
    LET us == dt.microsecond + microseconds
        sc == dt.second + seconds + (us \div Million)
    IN  [ day         |-> dt.day + days + (sc \div SecondsPerDay),
          second      |-> sc % SecondsPerDay,
          microsecond |-> us % Million ]

\* the order of datetime values
dt_before(a, b) ==
    \/ a.day < b.day
    \/ a.day = b.day /\ a.second < b.second
    \/ a.day = b.day /\ a.second = b.second /\ a.microsecond < b.microsecond

\* timedelta(seconds=molad_chalakim * 10 / 18), in microseconds (rounded to nearest)
chalakim_microseconds(molad_chalakim) == (molad_chalakim * 10 * Million + 9) \div 18

RECURSIVE find_previous_from(_, _)
find_previous_from(current_date, i) ==
    IF i >= 30 THEN None
    ELSE IF JewishCalendar(current_date).jewish_day = 1 THEN Some(current_date)
    ELSE find_previous_from(current_date - 1, i + 1)

\* a search of 29 days
find_previous_rosh_chodesh_29_days(date_) == find_previous_from(date_, 1)

\* None stands for the exception raised when no day 1 is found in 30 days
find_previous_rosh_chodesh(date_) == find_previous_from(date_, 0)

\* molad_obj is jc.molad() of the calendar package for gregorian_date
calculate_last_kiddush_levana_date(gregorian_date, molad_obj_) ==
    LET molad_date  == combine_min_time(gregorian_date)
        molad_dt    == plus_timedelta(molad_date, 0,
                           molad_obj_.molad_hours * 3600 + molad_obj_.molad_minutes * 60,
                           chalakim_microseconds(molad_obj_.molad_chalakim))
        latest_time == plus_timedelta(molad_dt, 12, 18 * 3600, 0)
    IN  << molad_dt, latest_time >>

\* the last day of the window left out of it
kiddush_levana_message_open_end(shabbat_date_only, start_kiddush_levana, latest_kiddush_levana) ==
    IF shabbat_date_only < start_kiddush_levana.day THEN "before"
    ELSE IF start_kiddush_levana.day <= shabbat_date_only
            /\ shabbat_date_only < latest_kiddush_levana.day THEN "within"
    ELSE "after"

\* the branch of create_image taken: which message is drawn
kiddush_levana_message(shabbat_date_only, start_kiddush_levana, latest_kiddush_levana) ==
    IF shabbat_date_only < start_kiddush_levana.day THEN "before"
    ELSE IF start_kiddush_levana.day <= shabbat_date_only
            /\ shabbat_date_only <= latest_kiddush_levana.day THEN "within"
    ELSE "after"

\* the Birkat Halevana block of create_image
birkat_halevana(shabbat_date_, molad_obj_) ==
    LET previous_rosh == find_previous_rosh_chodesh(shabbat_date_)
    IN  IF IsNone(previous_rosh) THEN [status |-> "failed"]
        ELSE LET window == calculate_last_kiddush_levana_date(Val(previous_rosh), molad_obj_)
                 molad_dt == window[1]
                 latest_kiddush_levana == window[2]
                 start_kiddush_levana == plus_timedelta(molad_dt, 6, 0, 0)
             IN  [ status                |-> "shown",
                   previous_rosh         |-> Val(previous_rosh),
                   molad_dt              |-> molad_dt,
                   start_kiddush_levana  |-> start_kiddush_levana,
                   latest_kiddush_levana |-> latest_kiddush_levana,
                   message               |-> kiddush_levana_message(shabbat_date_,
                                                 start_kiddush_levana, latest_kiddush_levana) ]

Molad(h, mi, c) == [molad_hours |-> h, molad_minutes |-> mi, molad_chalakim |-> c]

\* the Shabbat dates tried: consecutive days from 2025-10-17 (25 Tishri 5786)
FirstLevanaDate == toordinal(2025, 10, 17)

NumLevanaDays == 40

LevanaDates == FirstLevanaDate .. (FirstLevanaDate + NumLevanaDays - 1)

\* the molad of every hour at both ends of the hour, with no chalakim and with 9
MoladsByHour == { Molad(h, mi, c) : h \in 0..23, mi \in {0, 59}, c \in {0, 9} }

\* the molad of two hours with each number of chalakim
MoladsByChalakim == { Molad(h, 29, c) : h \in {5, 18}, c \in 0..17 }

LevanaCalls ==
    ({FirstLevanaDate + 12, FirstLevanaDate + 19} \X (MoladsByHour \cup MoladsByChalakim))
    \cup (LevanaDates \X { Molad(5, 59, 17), Molad(6, 0, 0), Molad(23, 59, 17) })

InitLevana ==
    /\ \E c \in LevanaCalls : levana_date = c[1] /\ molad_obj = c[2]
    /\ levana = NoResult
    /\ IdleRuns /\ IdleTimes /\ IdleLunar /\ IdleMevarchim /\ IdleRound /\ IdleTekufa /\ IdleLast

BirkatHalevana ==
    /\ levana = NoResult
    /\ levana' = birkat_halevana(levana_date, molad_obj)
    /\ UNCHANGED <<levana_date, molad_obj, runVars, timesVars, lunarVars, mevarchimVars, roundVars, tekufaVars, lastVars>>

NextLevana == BirkatHalevana

SpecLevana == InitLevana /\ [][NextLevana]_vars

-----------------------------------------------------------------------------
(* Claims about Birkat Halevana (SpecLevana).                              *)

Shown == levana.status = "shown"

\* C12: the window starts at molad + 6 days and ends at molad + 12 days 18 hours,
\* the start is before the end for every molad, and the queried date gets exactly
\* one of three messages: before when it is earlier than the date of the start,
\* within when it lies from the date of the start to the date of the end, after
\* when it is later than the date of the end.
C12_WindowClassification ==
    Shown =>
        LET molad_dt == levana.molad_dt
            start    == levana.start_kiddush_levana
            latest   == levana.latest_kiddush_levana
        IN  /\ start = [molad_dt EXCEPT !.day = @ + 6]
            /\ (latest.day - molad_dt.day) * SecondsPerDay + latest.second - molad_dt.second
                   = 12 * SecondsPerDay + 18 * 3600
            /\ latest.microsecond = molad_dt.microsecond
            /\ dt_before(start, latest)
            /\ levana.message \in {"before", "within", "after"}
            /\ levana.message = "before" <=> levana_date < start.day
            /\ levana.message = "within" <=> (start.day <= levana_date /\ levana_date <= latest.day)
            /\ levana.message = "after" <=> levana_date > latest.day

\* a Shabbat on the last day of a window whose end fell on the 14th day after
\* the month's first day, because the molad was at 06:00 or later
C12_Witness ==
    /\ Shown
    /\ levana.message = "within"
    /\ levana_date = levana.latest_kiddush_levana.day
    /\ levana.latest_kiddush_levana.day = levana.previous_rosh + 13

\* C13 (as claimed): the molad instant is midnight of the month-start date plus
\* the molad hours, the molad minutes and chalakim * (1/18 minute), for every
\* number of chalakim in 0..17 (so 9 chalakim add 30 seconds); compared to the
\* microsecond, in units of 1/18 microsecond.
C13_MoladInstant ==
    Shown =>
        LET added == (levana.molad_dt.second
                        - (molad_obj.molad_hours * 3600 + molad_obj.molad_minutes * 60)) * Million
                     + levana.molad_dt.microsecond
            diff  == 18 * added - molad_obj.molad_chalakim * 60 * Million
        IN  /\ levana.molad_dt.day = levana.previous_rosh
            /\ 0 - 9 <= diff /\ diff <= 9

-----------------------------------------------------------------------------
(* The tekufot: the generator script src/resources/tekufot.py, which writes *)
(* the file tekufa_2025_2035.ics, and the generator object that reads the   *)
(* file at construction and looks the week of a Shabbat up in it.           *)

\* datetime(2023, 10, 7, 21, 39)
initial_jm == [day |-> toordinal(2023, 10, 7), second |-> 21 * 3600 + 39 * 60, microsecond |-> 0]

\* an interval without its days
interval_hours_only == [days |-> 0, seconds |-> 7 * 3600 + 30 * 60]

\* timedelta(days=91, hours=7, minutes=30)
interval == [days |-> 91, seconds |-> 7 * 3600 + 30 * 60]

names == << "Tekufat Tishri", "Tekufat Tevet", "Tekufat Nisan", "Tekufat Tammuz" >>

\* datetime.year, for the years the generator passes through
year_of(dt) ==
    CHOOSE y \in 2023..2037 : toordinal(y, 1, 1) <= dt.day /\ dt.day < toordinal(y + 1, 1, 1)

\* initial_jm + index * interval
current_jm_of(i) == plus_timedelta(initial_jm, i * interval.days, i * interval.seconds, 0)

\* the event of an index with no correction of Tekufat Tevet
tekufa_event_uncorrected(i) ==
    LET name     == names[(i % 4) + 1]
        dt_local == current_jm_of(i)
    IN  [ summary |-> << name, year_of(dt_local) >>,
          dtstart |-> dt_local,
          dtend   |-> plus_timedelta(dt_local, 0, 60, 0) ]

\* the event the loop body adds for an index: Tekufat Tevet is moved one hour back
tekufa_event(i) ==
    LET name         == names[(i % 4) + 1]
        localized    == current_jm_of(i)
        dt_local     == IF name = "Tekufat Tevet"
                        THEN plus_timedelta(localized, 0, 0 - 3600, 0)
                        ELSE localized
    IN  [ summary |-> << name, year_of(dt_local) >>,
          dtstart |-> dt_local,
          dtend   |-> plus_timedelta(dt_local, 0, 60, 0) ]

\* parse_tekufa_ics: the (dt, summary) pair of every event of the file that has
\* both a DTSTART and a SUMMARY line, in the order of the file
parse_tekufa_ics(file) ==
    [ k \in 1..Len(file) |-> [dt |-> file[k].dtstart, summary |-> file[k].summary] ]

dt_le(a, b) == a = b \/ dt_before(a, b)

RECURSIVE last_in_week(_, _, _, _)
last_in_week(list, k, week_start, week_end) ==
    IF k < 1 THEN None
    ELSE IF dt_le(week_start, list[k].dt) /\ dt_le(list[k].dt, week_end) THEN Some(list[k])
    ELSE last_in_week(list, k - 1, week_start, week_end)

\* the event of the week that comes last in the list
get_tekufa_last_match(list, shabbat_date_) ==
    LET week_start == combine_min_time(shabbat_date_)
        week_end   == plus_timedelta(week_start, 6, 23 * 3600 + 59 * 60, 0)
    IN  last_in_week(list, Len(list), week_start, week_end)

RECURSIVE first_in_week(_, _, _, _)
first_in_week(list, k, week_start, week_end) ==
    IF k > Len(list) THEN None
    ELSE IF dt_le(week_start, list[k].dt) /\ dt_le(list[k].dt, week_end) THEN Some(list[k])
    ELSE first_in_week(list, k + 1, week_start, week_end)

\* a week that ends 7 whole days after its start
get_tekufa_whole_week(list, shabbat_date_) ==
    LET week_start == combine_min_time(shabbat_date_)
        week_end   == plus_timedelta(week_start, 7, 0, 0)
    IN  first_in_week(list, 1, week_start, week_end)

\* get_tekufa_for_shabbat (and get_tekufa_for_next_week, the same body)
get_tekufa_for_shabbat(list, shabbat_date_) ==
    LET week_start == combine_min_time(shabbat_date_)
        week_end   == plus_timedelta(week_start, 6, 23 * 3600 + 59 * 60, 0)
    IN  first_in_week(list, 1, week_start, week_end)

\* a week of the yearly table, Friday 2025-01-03, and instants around its window
SampleWeek == toordinal(2025, 1, 3)

SampleStamps ==
    { [day |-> SampleWeek - 1, second |-> 23 * 3600 + 59 * 60 + 59, microsecond |-> 0],
      [day |-> SampleWeek,     second |-> 0,                        microsecond |-> 0],
      [day |-> SampleWeek + 3, second |-> 12 * 3600,                microsecond |-> 0],
      [day |-> SampleWeek + 6, second |-> 23 * 3600 + 59 * 60,      microsecond |-> 0],
      [day |-> SampleWeek + 6, second |-> 23 * 3600 + 59 * 60 + 30, microsecond |-> 0] }

MaxFileLen == 3

\* files written by hand: up to MaxFileLen events in any order
SampleFiles ==
    UNION { { [ k \in 1..n |-> [ summary |-> << names[((k - 1) % 4) + 1], 2025 >>,
                                  dtstart |-> f[k],
                                  dtend   |-> plus_timedelta(f[k], 0, 60, 0) ] ] :
              f \in [1..n -> SampleStamps] } :
            n \in 0..MaxFileLen }

\* the Shabbat dates looked up: consecutive days from 2024-12-27
FirstWeekDate == toordinal(2024, 12, 27)

NumWeekDays == 16

WeekDates == FirstWeekDate .. (FirstWeekDate + NumWeekDays - 1)

InitTekufa ==
    /\ index = 0
    /\ cal_events = <<>>
    /\ ics_file \in {None} \cup { Some(f) : f \in SampleFiles }
    /\ tekufa_list = <<>>
    /\ tekufa = NoResult
    /\ IdleRuns /\ IdleTimes /\ IdleLunar /\ IdleMevarchim /\ IdleRound /\ IdleLevana /\ IdleLast

\* one pass of the while loop of the script that does not break
TekufotLoop ==
    /\ ics_file = None
    /\ LET year == year_of(current_jm_of(index))
       IN  /\ year <= 2035
           /\ cal_events' = IF 2025 <= year /\ year <= 2035
                             THEN Append(cal_events, tekufa_event(index))
                             ELSE cal_events
    /\ index' = index + 1
    /\ UNCHANGED <<ics_file, tekufa_list, tekufa, runVars, timesVars, lunarVars, mevarchimVars, roundVars, levanaVars, lastVars>>

\* the break of the loop and the writing of the file
TekufotSave ==
    /\ ics_file = None
    /\ year_of(current_jm_of(index)) > 2035
    /\ ics_file' = Some(cal_events)
    /\ UNCHANGED <<index, cal_events, tekufa_list, tekufa, runVars, timesVars, lunarVars, mevarchimVars, roundVars, levanaVars, lastVars>>

\* the construction of the generator object: the file is read when it exists
LoadTekufot ==
    /\ tekufa.status = "none"
    /\ tekufa_list' = IF IsNone(ics_file) THEN <<>> ELSE parse_tekufa_ics(Val(ics_file))
    /\ tekufa' = [status |-> "loaded"]
    /\ UNCHANGED <<index, cal_events, ics_file, runVars, timesVars, lunarVars, mevarchimVars, roundVars, levanaVars, lastVars>>

GetTekufaForShabbat ==
    /\ tekufa.status = "loaded"
    /\ \E d \in WeekDates :
           tekufa' = [ status       |-> "returned",
                       shabbat_date |-> d,
                       result       |-> get_tekufa_for_shabbat(tekufa_list, d) ]
    /\ UNCHANGED <<index, cal_events, ics_file, tekufa_list, runVars, timesVars, lunarVars, mevarchimVars, roundVars, levanaVars, lastVars>>

NextTekufa == TekufotLoop \/ TekufotSave \/ LoadTekufot \/ GetTekufaForShabbat

SpecTekufa == InitTekufa /\ [][NextTekufa]_vars

-----------------------------------------------------------------------------
(* Claims about the tekufot (SpecTekufa).                                  *)

\* the seconds from midnight of a day to an instant
Offset(dt, d) == (dt.day - d) * SecondsPerDay + dt.second

\* 6 days 23 hours 59 minutes, in seconds
WindowSeconds == 6 * SecondsPerDay + 23 * 3600 + 59 * 60

\* week_start <= dt <= week_start + 6 days 23 h 59 min, week_start the midnight of d
InWeek(dt, d) ==
    /\ 0 <= Offset(dt, d)
    /\ \/ Offset(dt, d) < WindowSeconds
       \/ Offset(dt, d) = WindowSeconds /\ dt.microsecond = 0

\* the positions of the loaded list that lie in the week looked up
Matching == { k \in 1..Len(tekufa_list) : InWeek(tekufa_list[k].dt, tekufa.shabbat_date) }

Looked == tekufa.status = "returned"

\* C14: get_tekufa_for_shabbat returns the first event, in the order of the list,
\* whose timestamp t satisfies week_start <= t <= week_start + 6 days 23 h 59 min,
\* and returns nothing exactly when no event of the list satisfies it.
C14_FirstEventOfWeek ==
    Looked =>
        /\ IsNone(tekufa.result) <=> Matching = {}
        /\ Matching # {} =>
               LET first == CHOOSE k \in Matching : \A j \in Matching : k <= j
               IN  tekufa.result = Some(tekufa_list[first])

\* a file in which two events lie in the week, the first of them after an event
\* outside the week and later in time than the second
C14_Witness ==
    /\ Looked
    /\ Cardinality(Matching) >= 2
    /\ 1 \notin Matching
    /\ \E j \in Matching : \E k \in Matching :
           /\ j < k /\ dt_before(tekufa_list[k].dt, tekufa_list[j].dt)
           /\ tekufa.result = Some(tekufa_list[j])

\* the list read from the file the script wrote
GeneratedLoaded == cal_events # <<>> /\ tekufa_list = parse_tekufa_ics(cal_events)

\* C15: in the series the script generates no window of 6 days 23 h 59 min holds
\* two events, wherever the window starts: any two events are further apart
\* than the window is long, and a week looked up holds at most one of them.
C15_OneEventPerWeek ==
    /\ \A j \in 1..Len(cal_events) : \A k \in 1..Len(cal_events) :
           j < k => Offset(cal_events[k].dtstart, cal_events[j].dtstart.day)
                       - cal_events[j].dtstart.second > WindowSeconds
    /\ (Looked /\ GeneratedLoaded) => Cardinality(Matching) <= 1

\* a week of the generated series that holds its one event
C15_Witness ==
    /\ Looked /\ GeneratedLoaded
    /\ Len(tekufa_list) > 40
    /\ Cardinality(Matching) = 1
    /\ ~IsNone(tekufa.result)

\* the index for which the k-th emitted event was built
IndexOf(k) == index - 1 - (Len(cal_events) - k)

IntervalSeconds == 91 * SecondsPerDay + 7 * 3600 + 30 * 60

NameOf(i) ==
    IF i % 4 = 0 THEN "Tekufat Tishri"
    ELSE IF i % 4 = 1 THEN "Tekufat Tevet"
    ELSE IF i % 4 = 2 THEN "Tekufat Nisan"
    ELSE "Tekufat Tammuz"

\* C16 (as claimed): the event of index i, counted from the reference epoch, has
\* the timestamp start_epoch + i * (91 days 7 hours 30 minutes) and the label
\* names[i mod 4], so two consecutive events are 91 days 7 hours 30 minutes apart.
C16_FixedIntervalSeries ==
    /\ \A k \in 1..Len(cal_events) :
           /\ Offset(cal_events[k].dtstart, initial_jm.day)
                  = initial_jm.second + IndexOf(k) * IntervalSeconds
           /\ cal_events[k].summary[1] = NameOf(IndexOf(k))
    /\ \A k \in 1..(Len(cal_events) - 1) :
           Offset(cal_events[k + 1].dtstart, cal_events[k].dtstart.day)
              - cal_events[k].dtstart.second = IntervalSeconds

\* C16 (amended): the event of index i has the label names[i mod 4] followed by
\* its year and the timestamp start_epoch + i * (91 days 7 hours 30 minutes),
\* one hour earlier when the label is Tekufat Tevet; two consecutive events are
\* 91 days 7 hours 30 minutes apart, one hour less into a Tekufat Tevet and one
\* hour more out of it.
C16_SeriesWithTevetCorrection ==
    /\ \A k \in 1..Len(cal_events) :
           /\ Offset(cal_events[k].dtstart, initial_jm.day)
                  = initial_jm.second + IndexOf(k) * IntervalSeconds
                    - (IF IndexOf(k) % 4 = 1 THEN 3600 ELSE 0)
           /\ cal_events[k].summary[1] = NameOf(IndexOf(k))
           /\ toordinal(cal_events[k].summary[2], 1, 1) <= cal_events[k].dtstart.day
           /\ cal_events[k].dtstart.day < toordinal(cal_events[k].summary[2] + 1, 1, 1)
           /\ cal_events[k].dtstart.microsecond = 0
    /\ \A k \in 1..(Len(cal_events) - 1) :
           Offset(cal_events[k + 1].dtstart, cal_events[k].dtstart.day)
              - cal_events[k].dtstart.second
                 = IntervalSeconds - (IF IndexOf(k + 1) % 4 = 1 THEN 3600 ELSE 0)
                                   + (IF IndexOf(k) % 4 = 1 THEN 3600 ELSE 0)

\* the series once written: it opens with Tekufat Tevet 2025 on 2025-01-06 at
\* 10:09 and Tekufat Nisan 2025 on 2025-04-07 at 18:39
C16_Witness ==
    /\ ics_file # None /\ Len(cal_events) = 44
    /\ cal_events[1].summary = << "Tekufat Tevet", 2025 >>
    /\ cal_events[1].dtstart
          = [day |-> toordinal(2025, 1, 6), second |-> 10 * 3600 + 9 * 60, microsecond |-> 0]
    /\ cal_events[2].summary = << "Tekufat Nisan", 2025 >>
    /\ cal_events[2].dtstart
          = [day |-> toordinal(2025, 4, 7), second |-> 18 * 3600 + 39 * 60, microsecond |-> 0]

-----------------------------------------------------------------------------
(* A Rosh Chodesh of two days and the Fridays it marks (SpecMevarchim).    *)

\* C22 (as claimed): when both dates of a two-day Rosh Chodesh are fetched, both
\* map to the same Friday, whatever the weekday of the first day, so two Fridays
\* one week apart are never both marked for the same new month.
C22_OneFridayPerNewMonth ==
    mevarchim.status = "returned" =>
        \A rd \in rosh_dates :
            (rd + 1) \in rosh_dates =>
                /\ mevarchim.fridays[rd] = mevarchim.fridays[rd + 1]
                /\ ~ \E d \in shabbat_days :
                       /\ (d + 7) \in shabbat_days
                       /\ mevarchim.column[d] /\ mevarchim.column[d + 7]
                       /\ {mevarchim.fridays[rd], mevarchim.fridays[rd + 1]} = {d, d + 7}

-----------------------------------------------------------------------------
(* Claims that compare the revisions of calculate_times (SpecTimes).       *)

\* C26: the minimum-gap override of calculate_times never changes the result:
\* for every start shir_hashirim is floor5(start - 10), a multiple of 5 that lies
\* 10 to 14 minutes before the start, and the revision without the override
\* returns that same value.
C26_OverrideNeverFires ==
    times.revision \in {"horaires_shabbat", "gemini_molad"} =>
        LET start_minutes == anchors.start.hour * 60 + anchors.start.minute
        IN  /\ times.shir_hashirim = Floor5(start_minutes - 10)
            /\ times.shir_hashirim % 5 = 0
            /\ start_minutes - times.shir_hashirim \in 10..14

\* a start 14 minutes after the rounded time, in the revision with the override
C26_Witness ==
    /\ ReturnedMain
    /\ anchors.start = Time(16, 19, 0)
    /\ times.shir_hashirim = 16 * 60 + 5

\* C27: for every end the chained derivation of horaires_shabbat.py and the
\* direct derivation of horaires_shabbat_gemini_last.py give the same classes:
\* shiur_rav = floor5(end - 135) = floor5(floor5(end - 90) - 45) and
\* parashat_hashavua = floor5(end - 180) = floor5(shiur_rav - 45); the entries
\* are 45 minutes apart and parashat_hashavua < shiur_rav < mincha_2 <
\* arvit_motsach <= end - 9.
C27_ChainedEqualsDirect ==
    times.revision \in {"horaires_shabbat", "gemini_last"} =>
        LET end_minutes == anchors.end.hour * 60 + anchors.end.minute
        IN  /\ times.mincha_2 = Floor5(end_minutes - 90)
            /\ times.shiur_rav = Floor5(end_minutes - 135)
            /\ times.shiur_rav = Floor5(Floor5(end_minutes - 90) - 45)
            /\ times.parashat_hashavua = Floor5(end_minutes - 180)
            /\ times.parashat_hashavua = Floor5(times.shiur_rav - 45)
            /\ times.mincha_2 - times.shiur_rav = 45
            /\ times.shiur_rav - times.parashat_hashavua = 45
            /\ times.parashat_hashavua < times.shiur_rav
            /\ times.shiur_rav < times.mincha_2
            /\ times.mincha_2 < times.arvit_motsach
            /\ times.arvit_motsach <= end_minutes - 9

\* the direct derivation for an end off the grid: 17:16 gives 15:00 and 14:15
C27_Witness ==
    /\ times.revision = "gemini_last"
    /\ anchors.end = Time(17, 16, 0)
    /\ times.shiur_rav = 15 * 60 /\ times.parashat_hashavua = 14 * 60 + 15

-----------------------------------------------------------------------------
(* The two dates whose sunsets are sampled for the weekday services, as    *)
(* calculate_times of horaires_shabbat.py and the table update of          *)
(* horaires_shabbat_gemini_last.py compute them from the day of a row.     *)

\* sunday_date = shabbat_start.date() + 2 days, thursday_date = sunday_date + 4 days
sample_dates_calculate_times(day) ==
    LET sunday_date   == day + 2
        thursday_date == sunday_date + 4
    IN  [sunday |-> sunday_date, thursday |-> thursday_date]

\* row.day + timedelta(days=(6-row.day.weekday()+1)%7 + 1) and (...+5)%7 + 5
sample_dates_gemini_last(day) ==
    [ sunday   |-> day + (((6 - weekday(day) + 1) % 7) + 1),
      thursday |-> day + (((6 - weekday(day) + 5) % 7) + 5) ]

\* the rows of the table: consecutive Fridays from 2025-10-17
NumDateRows == 60

DateRows == { FirstFriday + 7 * w : w \in 0..(NumDateRows - 1) }

NotSampled == [main |-> None, gemini_last |-> None]

InitDates ==
    /\ row_day \in DateRows
    /\ sample_dates = NotSampled
    /\ IdleRuns /\ IdleTimes /\ IdleLunar /\ IdleMevarchim /\ IdleLater
    /\ IdleColumn /\ IdleFast /\ IdleSearch /\ IdleParse /\ IdleHebrew /\ IdleDeliver

SampleDatesCalculateTimes ==
    /\ IsNone(sample_dates.main)
    /\ sample_dates' = [sample_dates EXCEPT !.main = Some(sample_dates_calculate_times(row_day))]
    /\ UNCHANGED <<row_day, runVars, timesVars, lunarVars, mevarchimVars, roundVars, levanaVars, tekufaVars>>
    /\ UNCHANGED <<columnVars, fastVars, searchVars, parseVars, hebrewVars, deliverVars>>

SampleDatesGeminiLast ==
    /\ IsNone(sample_dates.gemini_last)
    /\ sample_dates' = [sample_dates EXCEPT !.gemini_last = Some(sample_dates_gemini_last(row_day))]
    /\ UNCHANGED <<row_day, runVars, timesVars, lunarVars, mevarchimVars, roundVars, levanaVars, tekufaVars>>
    /\ UNCHANGED <<columnVars, fastVars, searchVars, parseVars, hebrewVars, deliverVars>>

NextDates == SampleDatesCalculateTimes \/ SampleDatesGeminiLast

SpecDates == InitDates /\ [][NextDates]_vars

\* C24 (as claimed): for every row whose day is a Friday both revisions sample
\* the sunsets of the Sunday and the Thursday after that Shabbat, the Friday + 2
\* days and the Friday + 6 days.
C24_SameSampleDates ==
    (weekday(row_day) = 4 /\ ~IsNone(sample_dates.main) /\ ~IsNone(sample_dates.gemini_last)) =>
        /\ Val(sample_dates.main) = [sunday |-> row_day + 2, thursday |-> row_day + 6]
        /\ Val(sample_dates.gemini_last) = Val(sample_dates.main)
        /\ weekday(Val(sample_dates.gemini_last).sunday) = 6
        /\ weekday(Val(sample_dates.gemini_last).thursday) = 3

-----------------------------------------------------------------------------
(* The tekoufa column of update_excel_with_mevarchim_column: the week of   *)
(* every row of the table is looked up in the list, rows 7 days apart.     *)

NumColumnRows == 3

\* the rows: consecutive Fridays from 2025-01-03
ColumnRows == { SampleWeek + 7 * w : w \in 0..(NumColumnRows - 1) }

\* a tekufa at a whole minute: every minute from the day before the first row's
\* week to the day after the last row's week
MinuteStamps ==
    { [day |-> d, second |-> mi * 60, microsecond |-> 0] :
        d \in (SampleWeek - 1)..(SampleWeek + 7 * NumColumnRows), mi \in 0..(24 * 60 - 1) }

InitColumn ==
    /\ \E t \in MinuteStamps : tekufa_list = << [dt |-> t, summary |-> << "Tekufat Tevet", 2025 >>] >>
    /\ tekufa_col = NoResult
    /\ index = 0 /\ cal_events = <<>> /\ ics_file = None /\ tekufa = NoResult
    /\ IdleRuns /\ IdleTimes /\ IdleLunar /\ IdleMevarchim /\ IdleRound /\ IdleLevana
    /\ IdleDates /\ IdleFast /\ IdleSearch /\ IdleParse /\ IdleHebrew /\ IdleDeliver

\* the loop over df["day"]: one lookup per row
FillTekufaColumn ==
    /\ tekufa_col = NoResult
    /\ tekufa_col' = [ status |-> "written",
                        cells  |-> [d \in ColumnRows |-> get_tekufa_for_shabbat(tekufa_list, d)] ]
    /\ UNCHANGED <<runVars, timesVars, lunarVars, mevarchimVars, roundVars, levanaVars, tekufaVars>>
    /\ UNCHANGED <<datesVars, fastVars, searchVars, parseVars, hebrewVars, deliverVars>>

NextColumn == FillTekufaColumn

SpecColumn == InitColumn /\ [][NextColumn]_vars

\* the seconds from the start of the first row's window to the end of the last
SpanSeconds == (7 * (NumColumnRows - 1) + 6) * SecondsPerDay + 23 * 3600 + 59 * 60

\* C25: with week starts exactly 7 days apart the windows [d 00:00, d + 6 days
\* 23:59] neither overlap nor leave a whole minute uncovered: a tekufa at a whole
\* minute between the start of the first window and the end of the last is
\* returned by exactly one lookup, the one of the week it falls in, and a tekufa
\* outside by none.
C25_WindowsTileTheWeeks ==
    tekufa_col.status = "written" =>
        LET t        == tekufa_list[1].dt
            off      == Offset(t, SampleWeek)
            inside   == 0 <= off /\ off <= SpanSeconds
            hits     == { d \in ColumnRows : ~IsNone(tekufa_col.cells[d]) }
        IN  /\ Cardinality(hits) = (IF inside THEN 1 ELSE 0)
            /\ \A d \in hits :
                   /\ tekufa_col.cells[d] = Some(tekufa_list[1])
                   /\ d <= t.day /\ t.day <= d + 6

\* a tekufa at 23:59 of the last day of the first week and one at 00:00 of the
\* first day of the second, each returned for its own row only
C25_Witness ==
    /\ tekufa_col.status = "written"
    /\ \/ /\ tekufa_list[1].dt = [day |-> SampleWeek + 6, second |-> 23 * 3600 + 59 * 60, microsecond |-> 0]
          /\ ~IsNone(tekufa_col.cells[SampleWeek])
          /\ IsNone(tekufa_col.cells[SampleWeek + 7])
       \/ /\ tekufa_list[1].dt = [day |-> SampleWeek + 7, second |-> 0, microsecond |-> 0]
          /\ IsNone(tekufa_col.cells[SampleWeek])
          /\ ~IsNone(tekufa_col.cells[SampleWeek + 7])

-----------------------------------------------------------------------------
(* The two line parsers of the calendar files, parse_tekufa_ics and        *)
(* parse_fast_ics.  A line is its kind and the text after the first colon; *)
(* a date-time text is the six numbers of its %Y%m%dT%H%M%S form.          *)

LineKinds == { "BEGIN:VEVENT", "END:VEVENT", "DTSTART", "DTEND", "SUMMARY", "OTHER" }

\* datetime.strptime(text, "%Y%m%dT%H%M%S")
strptime(text) ==
    [ day         |-> toordinal(text.year, text.month, text.day),
      second      |-> text.hour * 3600 + text.minute * 60 + text.second,
      microsecond |-> 0 ]

\* current = {} and in_event = False, nothing emitted yet
ParserStart == [ out |-> <<>>, current |-> [DTSTART |-> None, DTEND |-> None, SUMMARY |-> None], in_event |-> FALSE ]

\* the DTSTART / DTEND / SUMMARY branches: the line's text is stored in current
store_line(st, line, kinds) ==
    IF ~st.in_event \/ line.kind \notin kinds
    THEN st
    ELSE [st EXCEPT !.current = [@ EXCEPT ![line.kind] = Some(line.value)]]

\* one turn of the loop of parse_tekufa_ics
parse_tekufa_line(st, line) ==
    IF line.kind = "BEGIN:VEVENT"
    THEN [st EXCEPT !.in_event = TRUE, !.current = ParserStart.current]
    ELSE IF line.kind = "END:VEVENT"
    THEN [st EXCEPT !.in_event = FALSE,
                    !.out = IF ~IsNone(st.current.DTSTART) /\ ~IsNone(st.current.SUMMARY)
                            THEN Append(@, [ dt      |-> strptime(Val(st.current.DTSTART)),
                                             summary |-> Val(st.current.SUMMARY) ])
                            ELSE @]
    ELSE store_line(st, line, {"DTSTART", "SUMMARY"})

\* one turn of the loop of parse_fast_ics
parse_fast_line(st, line) ==
    IF line.kind = "BEGIN:VEVENT"
    THEN [st EXCEPT !.current = ParserStart.current, !.in_event = TRUE]
    ELSE IF line.kind = "END:VEVENT"
    THEN [st EXCEPT !.in_event = FALSE,
                    !.out = IF ~IsNone(st.current.DTSTART) /\ ~IsNone(st.current.SUMMARY)
                            THEN Append(@, [ date    |-> strptime(Val(st.current.DTSTART)).day,
                                             summary |-> Val(st.current.SUMMARY),
                                             start   |-> strptime(Val(st.current.DTSTART)),
                                             end     |-> IF IsNone(st.current.DTEND)
                                                         THEN None
                                                         ELSE Some(strptime(Val(st.current.DTEND))) ])
                            ELSE @]
    ELSE store_line(st, line, {"DTSTART", "DTEND", "SUMMARY"})

RECURSIVE parse_tekufa_from(_, _, _)
parse_tekufa_from(lines, i, st) ==
    IF i > Len(lines) THEN st.out ELSE parse_tekufa_from(lines, i + 1, parse_tekufa_line(st, lines[i]))

RECURSIVE parse_fast_from(_, _, _)
parse_fast_from(lines, i, st) ==
    IF i > Len(lines) THEN st.out ELSE parse_fast_from(lines, i + 1, parse_fast_line(st, lines[i]))

\* parse_tekufa_ics over the lines of the file
parse_tekufa_ics_lines(lines) == parse_tekufa_from(lines, 1, ParserStart)

\* parse_fast_ics over the lines of an existing file
parse_fast_ics(lines) == parse_fast_from(lines, 1, ParserStart)

MaxLines == 5

\* line i of a file: its kind, and a text that no other line of the file has
FileLine(kind, i) ==
    [ kind  |-> kind,
      value |-> IF kind \in {"DTSTART", "DTEND"}
                THEN [year |-> 2025, month |-> 1, day |-> 3, hour |-> 0, minute |-> 0, second |-> i]
                ELSE i ]

KindFiles == UNION { [1..n -> LineKinds] : n \in 0..MaxLines }

InitParse ==
    /\ \E ks \in KindFiles : ics_lines = [i \in 1..Len(ks) |-> FileLine(ks[i], i)]
    /\ parsed_tekufot = NoResult
    /\ parsed_fasts = NoResult
    /\ IdleRuns /\ IdleTimes /\ IdleLunar /\ IdleMevarchim /\ IdleLater
    /\ IdleColumn /\ IdleDates /\ IdleFast /\ IdleSearch /\ IdleHebrew /\ IdleDeliver

ParseTekufaIcs ==
    /\ parsed_tekufot = NoResult
    /\ parsed_tekufot' = [status |-> "parsed", records |-> parse_tekufa_ics_lines(ics_lines)]
    /\ UNCHANGED <<ics_lines, parsed_fasts>>
    /\ UNCHANGED <<runVars, timesVars, lunarVars, mevarchimVars, roundVars, levanaVars, tekufaVars>>
    /\ UNCHANGED <<columnVars, datesVars, fastVars, searchVars, hebrewVars, deliverVars>>

ParseFastIcs ==
    /\ parsed_fasts = NoResult
    /\ parsed_fasts' = [status |-> "parsed", records |-> parse_fast_ics(ics_lines)]
    /\ UNCHANGED <<ics_lines, parsed_tekufot>>
    /\ UNCHANGED <<runVars, timesVars, lunarVars, mevarchimVars, roundVars, levanaVars, tekufaVars>>
    /\ UNCHANGED <<columnVars, datesVars, fastVars, searchVars, hebrewVars, deliverVars>>

NextParse == ParseTekufaIcs \/ ParseFastIcs

SpecParse == InitParse /\ [][NextParse]_vars

\* the blocks of the file: a BEGIN:VEVENT line, the next END:VEVENT line, and no
\* other BEGIN:VEVENT between them
Blocks ==
    { b \in (DOMAIN ics_lines) \X (DOMAIN ics_lines) :
        /\ b[1] < b[2]
        /\ ics_lines[b[1]].kind = "BEGIN:VEVENT"
        /\ ics_lines[b[2]].kind = "END:VEVENT"
        /\ \A k \in (b[1] + 1)..(b[2] - 1) : ics_lines[k].kind \notin {"BEGIN:VEVENT", "END:VEVENT"} }

\* the blocks that hold both a DTSTART and a SUMMARY line
FullBlocks ==
    { b \in Blocks : \A kind \in {"DTSTART", "SUMMARY"} :
                        \E k \in (b[1] + 1)..(b[2] - 1) : ics_lines[k].kind = kind }

\* one record per full block, and no summary text in two records
OnePerBlock(records) ==
    /\ Len(records) = Cardinality(FullBlocks)
    /\ \A i, j \in DOMAIN records : i # j => records[i].summary # records[j].summary

\* C29: over any sequence of lines each parser emits exactly one record for each
\* BEGIN:VEVENT ... END:VEVENT block that holds both a DTSTART and a SUMMARY
\* line, and no text read for one record is emitted again in another record,
\* an END:VEVENT line without a BEGIN:VEVENT before it included.
C29_OneRecordPerBlock ==
    /\ parsed_tekufot.status = "parsed" => OnePerBlock(parsed_tekufot.records)
    /\ parsed_fasts.status = "parsed" => OnePerBlock(parsed_fasts.records)

-----------------------------------------------------------------------------
(* The fasts of the week: get_fast_from_ics_for_week, called by            *)
(* create_image with the day of the selected row of the yearly table.      *)

\* dt.strftime("%H:%M")
strftime_hm(dt) == [hour |-> dt.second \div 3600, minute |-> (dt.second % 3600) \div 60]

get_fast_from_ics_for_week(lines, shabbat_date_) ==
    LET all_fasts  == parse_fast_ics(lines)
        week_start == plus_timedelta(shabbat_date_, 1, 0, 0).day
        week_end   == plus_timedelta(shabbat_date_, 6, 0, 0).day
        kept       == SelectSeq(all_fasts, LAMBDA f : week_start <= f.date /\ f.date <= week_end)
    IN  [ i \in DOMAIN kept |->
            [ date  |-> kept[i].date,
              nom   |-> kept[i].summary,
              start |-> strftime_hm(kept[i].start),
              end   |-> IF IsNone(kept[i].end) THEN "" ELSE strftime_hm(Val(kept[i].end)) ] ]

NumFastRows == 3

\* the rows of the table: Fridays 7 days apart from 2025-01-03
FastRows == { SampleWeek + 7 * w : w \in 0..(NumFastRows - 1) }

\* the days of January 2025 a fast of the file may fall on
FastDays == 1..(7 * NumFastRows + 10)

\* jeunes.ics with one fast, from 05:30 on a day of January 2025, with or
\* without its DTEND line
FastFile(day, with_end) ==
    << [kind |-> "BEGIN:VEVENT", value |-> 1],
       [kind |-> "DTSTART", value |-> [year |-> 2025, month |-> 1, day |-> day, hour |-> 5, minute |-> 30, second |-> 0]] >>
    \o (IF with_end
        THEN << [kind |-> "DTEND", value |-> [year |-> 2025, month |-> 1, day |-> day, hour |-> 17, minute |-> 15, second |-> 0]] >>
        ELSE << >>)
    \o << [kind |-> "SUMMARY", value |-> "fast"],
          [kind |-> "END:VEVENT", value |-> 2] >>

InitFast ==
    /\ \E day \in FastDays, with_end \in BOOLEAN : fast_lines = FastFile(day, with_end)
    /\ fast_calls = [status |-> "calls", results |-> << >>]
    /\ IdleRuns /\ IdleTimes /\ IdleLunar /\ IdleMevarchim /\ IdleLater
    /\ IdleColumn /\ IdleDates /\ IdleSearch /\ IdleParse /\ IdleHebrew /\ IdleDeliver

\* create_image for one row: shabbat_date is the row's day at 00:00
GetFastFromIcsForWeek ==
    /\ fast_calls.status = "calls"
    /\ \E row \in FastRows \ DOMAIN fast_calls.results :
          fast_calls' = [fast_calls EXCEPT !.results =
                            @ @@ (row :> get_fast_from_ics_for_week(fast_lines, combine_min_time(row)))]
    /\ UNCHANGED <<fast_lines, runVars, timesVars, lunarVars, mevarchimVars, roundVars, levanaVars, tekufaVars>>
    /\ UNCHANGED <<columnVars, datesVars, searchVars, parseVars, hebrewVars, deliverVars>>

NextFast == GetFastFromIcsForWeek

SpecFast == InitFast /\ [][NextFast]_vars

\* the date of the one fast of the file
FastDate == parse_fast_ics(fast_lines)[1].date

\* C23: the call for a Friday-dated row returns exactly the fasts dated from the
\* Sunday through the Friday of the week after that Shabbat (row + 2 to
\* row + 7), and once every row has been looked up a fast on a weekday of those
\* weeks has been returned by exactly one call.
C23_SundayThroughFriday ==
    fast_calls.status = "calls" =>
        /\ \A row \in DOMAIN fast_calls.results :
               /\ weekday(row) = 4
               /\ (Len(fast_calls.results[row]) = 1) <=> (row + 2 <= FastDate /\ FastDate <= row + 7)
               /\ \A i \in DOMAIN fast_calls.results[row] : fast_calls.results[row][i].date = FastDate
        /\ (DOMAIN fast_calls.results = FastRows /\ weekday(FastDate) # 5
              /\ SampleWeek + 2 <= FastDate /\ FastDate <= SampleWeek + 7 * NumFastRows)
             => Cardinality({ row \in FastRows : Len(fast_calls.results[row]) = 1 }) = 1

-----------------------------------------------------------------------------
(* int_to_hebrew of molad_checker.py: a number in Hebrew letters.  A       *)
(* string is the sequence of the names of its characters.                  *)

\* hebrew_digits
hebrew_digits(value) ==
    CASE value = 1 -> "alef"    [] value = 2 -> "bet"     [] value = 3 -> "gimel"
      [] value = 4 -> "dalet"   [] value = 5 -> "he"      [] value = 6 -> "vav"
      [] value = 7 -> "zayin"   [] value = 8 -> "chet"    [] value = 9 -> "tet"
      [] value = 10 -> "yod"    [] value = 20 -> "kaf"    [] value = 30 -> "lamed"
      [] value = 40 -> "mem"    [] value = 50 -> "nun"    [] value = 60 -> "samekh"
      [] value = 70 -> "ayin"   [] value = 80 -> "pe"     [] value = 90 -> "tsadi"
      [] value = 100 -> "qof"   [] value = 200 -> "resh"  [] value = 300 -> "shin"
      [] value = 400 -> "tav"

\* the values the loop walks, largest first
HebrewValues == << 400, 300, 200, 100, 90, 80, 70, 60, 50, 40, 30, 20, 10 >>

\* the for / while loops: every value is taken as often as it fits
RECURSIVE take_values(_, _, _)
take_values(num, i, result) ==
    IF i > Len(HebrewValues)
    THEN [num |-> num, result |-> result]
    ELSE IF num >= HebrewValues[i]
    THEN take_values(num - HebrewValues[i], i, Append(result, hebrew_digits(HebrewValues[i])))
    ELSE take_values(num, i + 1, result)

\* the branches after the loops, on what the loops left of num
units_of(num, result) ==
    IF num = 15 THEN result \o << "tet", "gershayim", "vav" >>
    ELSE IF num = 16 THEN result \o << "tet", "gershayim", "zayin" >>
    ELSE IF num > 0 THEN Append(result, hebrew_digits(num))
    ELSE result

\* gershayim before the last character, or a geresh after a single one
punctuate(result) ==
    IF Len(result) > 1
    THEN SubSeq(result, 1, Len(result) - 1) \o << "gershayim", result[Len(result)] >>
    ELSE IF Len(result) = 1
    THEN Append(result, "geresh")
    ELSE result

\* int_to_hebrew below 1000
int_to_hebrew_rest(num) ==
    LET taken == take_values(num, 1, << >>)
    IN  punctuate(units_of(taken.num, taken.result))

int_to_hebrew(num) ==
    IF num >= 1000
    THEN << hebrew_digits(num \div 1000), "geresh" >> \o int_to_hebrew_rest(num % 1000)
    ELSE int_to_hebrew_rest(num)

\* the largest number the function is written for
MaxHebrew == 5999

InitHebrew ==
    /\ hebrew_num \in 1..MaxHebrew
    /\ hebrew_text = NoResult
    /\ IdleRuns /\ IdleTimes /\ IdleLunar /\ IdleMevarchim /\ IdleLater
    /\ IdleColumn /\ IdleDates /\ IdleFast /\ IdleSearch /\ IdleParse /\ IdleDeliver

IntToHebrew ==
    /\ hebrew_text = NoResult
    /\ hebrew_text' = [status |-> "written", text |-> int_to_hebrew(hebrew_num)]
    /\ UNCHANGED <<hebrew_num, runVars, timesVars, lunarVars, mevarchimVars, roundVars, levanaVars, tekufaVars>>
    /\ UNCHANGED <<columnVars, datesVars, fastVars, searchVars, parseVars, deliverVars>>

NextHebrew == IntToHebrew

SpecHebrew == InitHebrew /\ [][NextHebrew]_vars

\* the letters of a text, its geresh and gershayim left out
Letters(text) == SelectSeq(text, LAMBDA c : c \notin {"geresh", "gershayim"})

\* letter a directly followed by letter b
Follows(letters, a, b) == \E i \in 1..(Len(letters) - 1) : letters[i] = a /\ letters[i + 1] = b

\* C30: for every number whose tens-and-units part is 15 or 16 the text holds
\* tet followed by vav (15) or by zayin (16), and never yod followed by he or
\* by vav.
C30_FifteenIsTetVav ==
    (hebrew_text.status = "written" /\ hebrew_num % 100 \in {15, 16}) =>
        LET letters == Letters(hebrew_text.text)
        IN  /\ Follows(letters, "tet", IF hebrew_num % 100 = 15 THEN "vav" ELSE "zayin")
            /\ ~Follows(letters, "yod", "he")
            /\ ~Follows(letters, "yod", "vav")

-----------------------------------------------------------------------------
(* The two searches for a Rosh Chodesh: find_previous_rosh_chodesh, at     *)
(* most 30 days back, and the open loop of find_next_rosh_chodesh, one     *)
(* turn of the loop per step.                                              *)

FirstSearchDate == toordinal(2025, 10, 17)

NumSearchDays == 120

SearchDates == FirstSearchDate .. (FirstSearchDate + NumSearchDays - 1)

\* the turns of the forward loop the model follows
MaxSearchSteps == 40

InitSearch ==
    /\ search_date \in SearchDates
    /\ prev_found = NoResult
    /\ next_search = NoResult
    /\ IdleRuns /\ IdleTimes /\ IdleLunar /\ IdleMevarchim /\ IdleLater
    /\ IdleColumn /\ IdleDates /\ IdleFast /\ IdleParse /\ IdleHebrew /\ IdleDeliver

\* current_date = date_
FindNextStart ==
    /\ next_search = NoResult
    /\ next_search' = [status |-> "searching", current_date |-> search_date, steps |-> 0]
    /\ UNCHANGED <<search_date, prev_found>>
    /\ UNCHANGED <<runVars, timesVars, lunarVars, mevarchimVars, roundVars, levanaVars, tekufaVars>>
    /\ UNCHANGED <<columnVars, datesVars, fastVars, parseVars, hebrewVars, deliverVars>>

\* one turn of while True: return on day 1, else one day forward
FindNextTurn ==
    /\ next_search.status = "searching"
    /\ next_search.steps < MaxSearchSteps
    /\ next_search' = IF JewishCalendar(next_search.current_date).jewish_day = 1
                       THEN [next_search EXCEPT !.status = "returned"]
                       ELSE [next_search EXCEPT !.current_date = @ + 1, !.steps = @ + 1]
    /\ UNCHANGED <<search_date, prev_found>>
    /\ UNCHANGED <<runVars, timesVars, lunarVars, mevarchimVars, roundVars, levanaVars, tekufaVars>>
    /\ UNCHANGED <<columnVars, datesVars, fastVars, parseVars, hebrewVars, deliverVars>>

FindPreviousRoshChodesh ==
    /\ next_search.status = "returned"
    /\ prev_found = NoResult
    /\ prev_found' = LET found == find_previous_rosh_chodesh(search_date)
                      IN  IF IsNone(found)
                          THEN [status |-> "raised"]
                          ELSE [status |-> "returned", date |-> Val(found)]
    /\ UNCHANGED <<search_date, next_search>>
    /\ UNCHANGED <<runVars, timesVars, lunarVars, mevarchimVars, roundVars, levanaVars, tekufaVars>>
    /\ UNCHANGED <<columnVars, datesVars, fastVars, parseVars, hebrewVars, deliverVars>>

NextSearch == FindNextStart \/ FindNextTurn \/ FindPreviousRoshChodesh

SpecSearch == InitSearch /\ [][NextSearch]_vars

\* C28: find_previous_rosh_chodesh never raises and returns the latest date not
\* after its input whose day of the month is 1 (the input itself on a day 1, the
\* date 29 days before on a day 30); the forward loop of find_next_rosh_chodesh
\* takes at most 30 steps and returns the first day 1 not before its input.
C28_SearchesFindDayOne ==
    /\ prev_found.status # "raised"
    /\ prev_found.status = "returned" =>
          /\ prev_found.date <= search_date
          /\ search_date - prev_found.date <= 29
          /\ JewishCalendar(prev_found.date).jewish_day = 1
          /\ \A d \in (prev_found.date + 1)..search_date : JewishCalendar(d).jewish_day # 1
    /\ next_search.status \in {"searching", "returned"} =>
          /\ next_search.steps <= 30
          /\ next_search.current_date = search_date + next_search.steps
    /\ (next_search.status = "returned" /\ prev_found = NoResult) =>
          /\ JewishCalendar(next_search.current_date).jewish_day = 1
          /\ \A d \in search_date..(next_search.current_date - 1) : JewishCalendar(d).jewish_day # 1

\* the input is day 30 of its month: the backward search returns the date 29
\* days before it and the forward loop the next day
C28_Witness ==
    /\ JewishCalendar(search_date).jewish_day = 30
    /\ prev_found = [status |-> "returned", date |-> search_date - 29]
    /\ next_search = [status |-> "returned", current_date |-> search_date + 1, steps |-> 1]

-----------------------------------------------------------------------------
(* generate: calculate_times, create_image, update_excel for the selected  *)
(* row, with a Hebrew-calendar query of create_image that may raise.       *)

\* the calendar query that raises during the run, if any
CalendarFaults == { "none", "molad", "rosh_chodesh", "levana" }

\* the rows get_shabbat_times_from_excel_file may select
SelectedRows ==
    { [ status |-> "selected", season |-> se, start |-> st,
        end |-> FromMinutes(minutes_of(st) + LongGap), is_mevarchim |-> mv, times |-> None ] :
        se \in Seasons, st \in StartSamples, mv \in BOOLEAN }

\* create_image: the molad and the Rosh Chodesh days are drawn inside the try of
\* the whole image, the Birkat Halevana lines inside a try of their own
create_image(times_, is_mevarchim_, fault) ==
    IF is_mevarchim_ /\ fault \in {"molad", "rosh_chodesh"}
    THEN [status |-> "failed"]
    ELSE [ status     |-> "saved",
           mincha_hol |-> format_time(times_.mincha_hol),
           arvit_hol  |-> format_time(times_.arvit_hol),
           calendar   |-> IF is_mevarchim_ THEN "molad and rosh chodesh"
                          ELSE IF fault = "levana" THEN "none"
                          ELSE "birkat halevana" ]

\* the row update_excel writes to the sheet of the current Shabbat
update_excel(shabbat_data, times_) ==
    [ status       |-> "written",
      mincha_hol   |-> format_time(times_.mincha_hol),
      arvit_hol    |-> format_time(times_.arvit_hol),
      is_mevarchim |-> shabbat_data.is_mevarchim ]

InitDeliver ==
    /\ calendar_fault \in CalendarFaults
    /\ gen_row \in SelectedRows
    /\ gen_step = "start"
    /\ image = NoResult
    /\ excel_row = NoResult
    /\ IdleRuns /\ IdleTimes /\ IdleLunar /\ IdleMevarchim /\ IdleLater
    /\ IdleColumn /\ IdleDates /\ IdleFast /\ IdleSearch /\ IdleParse /\ IdleHebrew

GenerateCalculateTimes ==
    /\ gen_step = "start"
    /\ gen_row' = [gen_row EXCEPT !.times =
                       Some(calculate_times(gen_row.season, gen_row.start, gen_row.end,
                                            BothMarkers[1], BothMarkers[2]))]
    /\ gen_step' = "times"
    /\ UNCHANGED <<calendar_fault, image, excel_row>>
    /\ UNCHANGED <<runVars, timesVars, lunarVars, mevarchimVars, roundVars, levanaVars, tekufaVars>>
    /\ UNCHANGED <<columnVars, datesVars, fastVars, searchVars, parseVars, hebrewVars>>

GenerateCreateImage ==
    /\ gen_step = "times"
    /\ image' = create_image(Val(gen_row.times), gen_row.is_mevarchim, calendar_fault)
    /\ gen_step' = "image"
    /\ UNCHANGED <<calendar_fault, gen_row, excel_row>>
    /\ UNCHANGED <<runVars, timesVars, lunarVars, mevarchimVars, roundVars, levanaVars, tekufaVars>>
    /\ UNCHANGED <<columnVars, datesVars, fastVars, searchVars, parseVars, hebrewVars>>

\* "if not image_path" only prints; update_excel follows in both cases
GenerateUpdateExcel ==
    /\ gen_step = "image"
    /\ excel_row' = update_excel(gen_row, Val(gen_row.times))
    /\ gen_step' = "done"
    /\ UNCHANGED <<calendar_fault, gen_row, image>>
    /\ UNCHANGED <<runVars, timesVars, lunarVars, mevarchimVars, roundVars, levanaVars, tekufaVars>>
    /\ UNCHANGED <<columnVars, datesVars, fastVars, searchVars, parseVars, hebrewVars>>

NextDeliver == GenerateCalculateTimes \/ GenerateCreateImage \/ GenerateUpdateExcel

SpecDeliver == InitDeliver /\ [][NextDeliver]_vars

\* C21: whichever calendar query fails during a run, the run goes to its end
\* and the service schedule with its weekday times is delivered both ways: the
\* image is saved and the spreadsheet row is written.
C21_ScheduleStillDelivered ==
    gen_step = "done" =>
        /\ excel_row.status = "written"
        /\ image.status = "saved"
        /\ image.mincha_hol = excel_row.mincha_hol
        /\ image.arvit_hol = excel_row.arvit_hol

====
